---- MODULE Spec2Model ----
(***************************************************************************)
(* A model of the gameplot dashboard: the dataset store (dataLoader.js),  *)
(* the filter controls and getFilteredData (filters.js), the              *)
(* recomputation pass updateVisualization (main.js) and the views it      *)
(* feeds (gamesTable.js, playtimeAggregationChart.js, statistics.js).     *)
(*                                                                         *)
(* JavaScript values are modelled as follows.                              *)
(*  - a rating is a record [k, v]: k = "number" with v the rating in       *)
(*    tenths (9.5 is 95), k = "null" (JSON null / missing) or k = "text"   *)
(*    (a non-numeric string, which coerces to NaN in comparisons);         *)
(*  - a date string is a record [k, d]: k = "iso" with d the day number    *)
(*    counted from 1970-01-01 ("YYYY-MM-DD"), k = "null" (JSON null),      *)
(*    k = "text" (missing, empty or malformed: new Date gives Invalid);    *)
(*  - a Date object is a record [valid, t] with t in seconds since the     *)
(*    epoch, UTC;                                                          *)
(*  - a status is a string, NoStatus standing for an absent one.           *)
(***************************************************************************)
EXTENDS Integers, Sequences, FiniteSets, TLC

VARIABLES
    phase,          \* "start" | "ready" | "failed": position of initializeDashboard
    tz,             \* the browser's time zone, hours east of UTC
    gameData,       \* dataLoader.js: let gameData
    platformBoxes,  \* #platformCheckboxes: sequence of [value, checked]
    tagBoxes,       \* #tagCheckboxes
    statusBoxes,    \* #statusCheckboxes
    ratingBoxes,    \* #ratingCheckboxes
    startDate,      \* value of the #startDate input (a date string)
    endDate,        \* value of the #endDate input
    dateListeners,  \* "change" listeners on each of the two date inputs
    timelineShown,  \* records bound to the timeline circles
    tableData,      \* gamesTable.js: let currentData
    tableRows,      \* rows of #gamesTableBody, in display order
    aggData,        \* playtimeAggregationChart.js: let currentData
    playtimeShown,  \* records bound to the playtime scatter circles
    statsPanel,     \* content of #stats
    lastUpdatedData, \* statistics.js: let lastUpdatedData (TRUE once cached)
    pendingStats,   \* updateStats calls suspended at await loadLastUpdated()
    sortColumn,     \* gamesTable.js: let sortColumn
    sortDirection,  \* gamesTable.js: let sortDirection
    searchTerm,     \* gamesTable.js: let searchTerm
    searchInput,    \* value of the #gameSearch input
    searchTimeout,  \* TRUE while the debounce timer of the search input is armed
    csvRows,        \* the records of the last CSV file downloaded, <<>> before
    searchBurst,    \* bookkeeping: "typing" since an input event, "applied" once the
                    \* timer or Enter has called setSearchTerm, "none" before both
    currentAggregationType, \* playtimeAggregationChart.js
    lastPass,       \* bookkeeping: what the last updateVisualization pass did
    ops,            \* number of user events handled so far
    ratingIn,       \* input of the rating-bucket functions under test
    ratingOut,      \* their results
    derivedIn,      \* input of the statistics and aggregation functions under test
    derivedOut      \* their result

vars == <<phase, tz, gameData, platformBoxes, tagBoxes, statusBoxes, ratingBoxes,
          startDate, endDate, dateListeners, csvRows, timelineShown, tableData, tableRows,
          aggData, playtimeShown, statsPanel, lastUpdatedData, pendingStats, sortColumn,
          sortDirection, searchTerm, searchInput, searchTimeout, searchBurst,
          currentAggregationType, lastPass, ops, ratingIn, ratingOut, derivedIn,
          derivedOut>>

(***************************************************************************)
(* Bounds of the model.                                                    *)
(***************************************************************************)
MaxRecords == 2
MaxOps == 2
MaxDay == 3

\* Time zones the browser may run in (hours east of UTC).
TimeZones == {-5, 0}

SecondsPerHour == 60 * 60
SecondsPerDay == 24 * SecondsPerHour

(***************************************************************************)
(* Values of the data model.                                               *)
(***************************************************************************)
NoStatus == "<absent>"

Num(v) == [k |-> "number", v |-> v]
NullRating == [k |-> "null", v |-> 0]
TextRating == [k |-> "text", v |-> 0]

Iso(d) == [k |-> "iso", d |-> d]
NullDate == [k |-> "null", d |-> 0]
BadDate == [k |-> "text", d |-> 0]

InvalidDate == [valid |-> FALSE, t |-> 0]

\* new Date(string | null): a date-only ISO string is parsed as UTC midnight,
\* null converts to 0 (the epoch), everything else is an Invalid Date.
NewDate(s) ==
    CASE s.k = "iso"  -> [valid |-> TRUE, t |-> s.d * SecondsPerDay]
      [] s.k = "null" -> [valid |-> TRUE, t |-> 0]
      [] OTHER        -> InvalidDate

\* Date.prototype.setHours(23, 59, 59): local wall-clock time, same local day.
SetHoursEndOfDay(date) ==
    IF ~date.valid THEN date
    ELSE LET local == date.t + tz * SecondsPerHour
             localDay == local \div SecondsPerDay
         IN [valid |-> TRUE,
             t |-> localDay * SecondsPerDay + 23 * SecondsPerHour + 59 * 60 + 59
                   - tz * SecondsPerHour]

\* d3.timeFormat("%Y-%m-%d")(date): the date's LOCAL calendar day; an undefined
\* or invalid date formats to a string that is no date.
TimeFormat(date) ==
    IF ~date.valid THEN BadDate
    ELSE Iso((date.t + tz * SecondsPerHour) \div SecondsPerDay)

(***************************************************************************)
(* Strings.  Array.prototype.sort() without a comparator orders strings by *)
(* UTF-16 code units; StringOrder lists the strings of the model in that   *)
(* order.  An undefined element sorts last.                                *)
(***************************************************************************)
StringOrder == <<"A", "B", "C", "Completed", "D", "E", "F", "G", "Indie", "PC",
                 "Playing", "RPG", "Switch", "Unknown", "on", NoStatus>>

Rank(s) == CHOOSE i \in DOMAIN StringOrder : StringOrder[i] = s

Range(seq) == {seq[i] : i \in DOMAIN seq}

\* [...new Set(values)]: the distinct values in order of first occurrence.
RECURSIVE Distinct(_)
Distinct(seq) ==
    IF seq = <<>> THEN <<>>
    ELSE LET front == Distinct(SubSeq(seq, 1, Len(seq) - 1))
             last == seq[Len(seq)]
         IN IF last \in Range(front) THEN front ELSE Append(front, last)

\* Array.prototype.sort() on distinct strings.
RECURSIVE SortStrings(_)
SortStrings(seq) ==
    IF seq = <<>> THEN <<>>
    ELSE LET least == CHOOSE i \in DOMAIN seq :
                          \A j \in DOMAIN seq : Rank(seq[i]) <= Rank(seq[j])
         IN <<seq[least]>> \o
            SortStrings(SubSeq(seq, 1, least - 1) \o SubSeq(seq, least + 1, Len(seq)))

\* data.flatMap(f)
RECURSIVE FlatMap(_, _)
FlatMap(data, field) ==
    IF data = <<>> THEN <<>>
    ELSE data[1][field] \o FlatMap(Tail(data), field)

(***************************************************************************)
(* The sample records the dataset is drawn from.                           *)
(***************************************************************************)
Game(title, platforms, tags, status, rating, lastPlayedTotal, total, single) ==
    [game |-> title, platforms |-> platforms, tags |-> tags, status |-> status,
     rating |-> rating, lastPlayedTotal |-> lastPlayedTotal,
     hoursPlayedTotal |-> total, hoursPlayedSingle |-> single]

GameA == Game("A", <<"PC">>, <<"RPG">>, "Completed", Num(95), Iso(1), 50, <<50>>)
GameB == Game("B", <<"PC", "Switch">>, <<"RPG", "Indie">>, "Unknown", Num(49), Iso(3),
              15, <<10, 5>>)
\* no status
GameC == Game("C", <<"Switch">>, <<"Indie">>, NoStatus, Num(89), Iso(2), 5, <<5>>)
\* no rating, no tag
GameD == Game("D", <<"PC">>, <<>>, "Playing", NullRating, Iso(2), 2, <<2>>)
\* lastPlayedTotal: null
GameE == Game("E", <<"Switch">>, <<"RPG">>, "Completed", Num(70), NullDate, 7, <<7>>)
\* a rating that is not a number
GameF == Game("F", <<"PC">>, <<"Indie">>, "Playing", TextRating, Iso(2), 3, <<3>>)
\* a malformed lastPlayedTotal
GameG == Game("G", <<"PC">>, <<"RPG">>, "Playing", Num(100), BadDate, 1, <<1>>)

\* the rating of A; hours recorded for the first of its two platforms only
GameH == Game("H", <<"PC", "Switch">>, <<"RPG">>, "Completed", Num(95), Iso(3), 4, <<4>>)
\* no rating, one tag
GameI == Game("I", <<"Switch">>, <<"Indie">>, "Playing", NullRating, Iso(1), 6, <<6>>)

\* Records whose fields have the types of the data model (a rating is a
\* number or null, a date an ISO string or null).
WellFormedGames == {GameA, GameB, GameC, GameD, GameE}
\* With the records that have a malformed field.
AllGames == WellFormedGames \cup {GameF, GameG}

\* The records given to the statistics and aggregation functions on their own.
DerivedGames == AllGames \cup {GameH, GameI}

\* The tags of the records.
AllTags == {"RPG", "Indie"}

\* The datasets over a pool: sequences without repetition (titles are unique).
Datasets(pool) ==
    UNION {{s \in [1..n -> pool] : \A i, j \in 1..n : i # j => s[i] # s[j]}
           : n \in 0..MaxRecords}

(***************************************************************************)
(* Checkboxes (filters.js).                                                *)
(***************************************************************************)
Box(value) == [value |-> value, checked |-> TRUE]

\* d3 .attr("value", v) removes the attribute when v is null or undefined, and
\* a checkbox without a value attribute reports the value "on".
AttrValue(v) == IF v = NoStatus THEN "on" ELSE v

\* Append one checked checkbox per value to a container.
RECURSIVE AppendBoxes(_, _)
AppendBoxes(boxes, values) ==
    IF values = <<>> THEN boxes
    ELSE AppendBoxes(Append(boxes, Box(AttrValue(Head(values)))), Tail(values))

RatingRanges == <<"<5", "5-6", "6-7", "7-8", "8-9", "9-10">>

populatePlatformFilters(boxes, data) ==
    AppendBoxes(boxes, SortStrings(Distinct(FlatMap(data, "platforms"))))

populateTagFilters(boxes, data) ==
    AppendBoxes(boxes, SortStrings(Distinct(FlatMap(data, "tags"))))

populateStatusFilters(boxes, data) ==
    AppendBoxes(boxes, SortStrings(Distinct([i \in DOMAIN data |-> data[i].status])))

populateRatingFilters(boxes, data) ==
    AppendBoxes(boxes, RatingRanges)

\* d3.extent of the valid dates of the dataset, as [min, max] of Date objects;
\* both undefined (invalid here) when there is none.
DateExtent(data) ==
    LET dates == {NewDate(data[i].lastPlayedTotal) : i \in DOMAIN data}
        valid == {d \in dates : d.valid}
    IN IF valid = {} THEN <<InvalidDate, InvalidDate>>
       ELSE <<CHOOSE d \in valid : \A e \in valid : d.t <= e.t,
              CHOOSE d \in valid : \A e \in valid : d.t >= e.t>>

\* The values populateDateFilters (and clearDateFilter) write to the inputs.
populateDateFilters(data) ==
    <<TimeFormat(DateExtent(data)[1]), TimeFormat(DateExtent(data)[2])>>

\* document.querySelectorAll('#... input:checked').map(cb => cb.value)
Selected(boxes) ==
    LET checked == SelectSeq(boxes, LAMBDA b : b.checked)
    IN [i \in DOMAIN checked |-> checked[i].value]

Includes(seq, v) == \E i \in DOMAIN seq : seq[i] = v

(***************************************************************************)
(* getFilteredData and its facet predicates (filters.js).                  *)
(***************************************************************************)
\* getRatingRange returns null for a null or undefined rating.
NullRange == "<null>"

\* rating >= bound for a rating that is not null: a non-numeric string coerces
\* to NaN and every comparison with NaN is false.
RatingAtLeast(rating, bound) == rating.k = "number" /\ rating.v >= bound

\* Variant: the lower bound of every bucket is exclusive.
getRatingRangeExclusive(rating) ==
    IF rating.k = "null" THEN NullRange
    ELSE IF rating.k = "number" /\ rating.v > 90 THEN "9-10"
    ELSE IF rating.k = "number" /\ rating.v > 80 THEN "8-9"
    ELSE IF rating.k = "number" /\ rating.v > 70 THEN "7-8"
    ELSE IF rating.k = "number" /\ rating.v > 60 THEN "6-7"
    ELSE IF rating.k = "number" /\ rating.v > 50 THEN "5-6"
    ELSE "<5"

getRatingRange(rating) ==
    IF rating.k = "null" THEN NullRange
    ELSE IF RatingAtLeast(rating, 90) THEN "9-10"
    ELSE IF RatingAtLeast(rating, 80) THEN "8-9"
    ELSE IF RatingAtLeast(rating, 70) THEN "7-8"
    ELSE IF RatingAtLeast(rating, 60) THEN "6-7"
    ELSE IF RatingAtLeast(rating, 50) THEN "5-6"
    ELSE "<5"

platformMatch(d, selectedPlatforms) ==
    \/ Len(selectedPlatforms) = 0
    \/ \E i \in DOMAIN d.platforms : Includes(selectedPlatforms, d.platforms[i])

tagMatch(d, selectedTags) ==
    \/ Len(selectedTags) = 0
    \/ \E i \in DOMAIN d.tags : Includes(selectedTags, d.tags[i])

\* Variant: an empty status selection admits every record, like the others.
statusMatchEmptyAdmits(d, selectedStatuses) ==
    \/ Len(selectedStatuses) = 0
    \/ Includes(selectedStatuses, d.status)

statusMatch(d, selectedStatuses) == Includes(selectedStatuses, d.status)

ratingMatch(d, selectedRatingRanges) ==
    \/ Len(selectedRatingRanges) = 0
    \/ Includes(selectedRatingRanges, getRatingRange(d.rating))

\* Variant: the start of the interval is exclusive.
dateMatchAfterStart(d, start, end) ==
    LET gameDate == NewDate(d.lastPlayedTotal)
    IN /\ gameDate.valid
       /\ start.valid /\ gameDate.t > start.t
       /\ end.valid /\ gameDate.t <= end.t

\* start and end are the Date objects built from the two inputs, end already
\* moved to 23:59:59.
dateMatch(d, start, end) ==
    LET gameDate == NewDate(d.lastPlayedTotal)
    IN /\ gameDate.valid
       /\ start.valid /\ gameDate.t >= start.t
       /\ end.valid /\ gameDate.t <= end.t

\* The controls getFilteredData reads, as one value.
Dom == [platformBoxes |-> platformBoxes, tagBoxes |-> tagBoxes,
        statusBoxes |-> statusBoxes, ratingBoxes |-> ratingBoxes,
        startDate |-> startDate, endDate |-> endDate]

FilterStart(dom) == NewDate(dom.startDate)
FilterEnd(dom) == SetHoursEndOfDay(NewDate(dom.endDate))

\* Variant: the tag facet is left out of the conjunction.
passesFilterWithoutTags(d, dom) ==
    /\ platformMatch(d, Selected(dom.platformBoxes))
    /\ statusMatch(d, Selected(dom.statusBoxes))
    /\ ratingMatch(d, Selected(dom.ratingBoxes))
    /\ dateMatch(d, FilterStart(dom), FilterEnd(dom))

\* The predicate of data.filter(...) in getFilteredData.
passesFilter(d, dom) ==
    /\ platformMatch(d, Selected(dom.platformBoxes))
    /\ tagMatch(d, Selected(dom.tagBoxes))
    /\ statusMatch(d, Selected(dom.statusBoxes))
    /\ ratingMatch(d, Selected(dom.ratingBoxes))
    /\ dateMatch(d, FilterStart(dom), FilterEnd(dom))

getFilteredData(data, dom) == SelectSeq(data, LAMBDA d : passesFilter(d, dom))

(***************************************************************************)
(* The games table (gamesTable.js).                                        *)
(***************************************************************************)
SearchTerms == {"", " ", "a", "zz"}

\* searchTerm.toLowerCase().trim()
TrimLower(term) == IF term = " " THEN "" ELSE term

\* game.game.toLowerCase().includes(searchLower), for the titles and the
\* search terms of the model.
TitleIncludes(title, searchLower) ==
    \/ searchLower = ""
    \/ searchLower = "a" /\ title = "A"

applySearchFilter(data, term) ==
    IF TrimLower(term) = "" THEN data
    ELSE SelectSeq(data, LAMBDA game : TitleIncludes(game.game, TrimLower(term)))

SortColumns == {"game", "platforms", "rating", "lastPlayedTotal", "hoursPlayedTotal",
                "status", "tags"}

\* Lower-cased strings compare like the originals here (every string of the
\* model starts with a capital); '' (for an absent status) is least.
LowerRank(str) == IF str = NoStatus THEN 0 ELSE Rank(str)

\* a < b for two joined lists ("x, y"), element by element.
RECURSIVE JoinedLess(_, _)
JoinedLess(a, b) ==
    IF b = <<>> THEN FALSE
    ELSE IF a = <<>> THEN TRUE
    ELSE IF LowerRank(Head(a)) # LowerRank(Head(b))
         THEN LowerRank(Head(a)) < LowerRank(Head(b))
    ELSE JoinedLess(Tail(a), Tail(b))

\* aVal < bVal for the values getColumnValue gives for the two games.
ColumnLess(a, b, column) ==
    CASE column = "game" -> LowerRank(a.game) < LowerRank(b.game)
      [] column = "platforms" -> JoinedLess(a.platforms, b.platforms)
      [] column = "rating" ->
            \* game.rating || 0; a non-numeric string compares false with anything
            /\ a.rating.k # "text" /\ b.rating.k # "text"
            /\ a.rating.v < b.rating.v
      [] column = "lastPlayedTotal" ->
            LET da == NewDate(a.lastPlayedTotal)
                db == NewDate(b.lastPlayedTotal)
            IN da.valid /\ db.valid /\ da.t < db.t
      [] column = "hoursPlayedTotal" -> a.hoursPlayedTotal < b.hoursPlayedTotal
      [] column = "status" -> LowerRank(a.status) < LowerRank(b.status)
      [] column = "tags" -> JoinedLess(a.tags, b.tags)
      [] OTHER -> FALSE

\* The comparator of sortData: negative, zero or positive.
Compare(a, b, column, direction) ==
    LET comparison == IF ColumnLess(b, a, column) THEN 1
                      ELSE IF ColumnLess(a, b, column) THEN -1 ELSE 0
    IN IF direction = "desc" THEN 0 - comparison ELSE comparison

\* Insert x into a sorted list behind every element that does not compare
\* greater than it (a stable insertion).
RECURSIVE InsertSorted(_, _, _, _)
InsertSorted(sorted, x, column, direction) ==
    IF sorted = <<>> THEN <<x>>
    ELSE LET last == sorted[Len(sorted)]
         IN IF Compare(last, x, column, direction) > 0
            THEN Append(InsertSorted(SubSeq(sorted, 1, Len(sorted) - 1), x,
                                     column, direction), last)
            ELSE Append(sorted, x)

\* [...data].sort(comparator): a stable sort.
RECURSIVE sortData(_, _, _)
sortData(data, column, direction) ==
    IF data = <<>> THEN <<>>
    ELSE InsertSorted(sortData(SubSeq(data, 1, Len(data) - 1), column, direction),
                      data[Len(data)], column, direction)

\* createTableRow calls game.rating.toFixed(1) on every rating that is neither
\* null nor undefined: a TypeError for a string.
createTableRowThrows(game) == game.rating.k = "text"

\* The rows renderTable appends before it returns or throws.
RECURSIVE RowsUntilThrow(_)
RowsUntilThrow(sortedData) ==
    IF sortedData = <<>> \/ createTableRowThrows(Head(sortedData)) THEN <<>>
    ELSE <<Head(sortedData)>> \o RowsUntilThrow(Tail(sortedData))

\* renderTable(data): the rows it leaves in the table body, and whether it threw.
renderTable(data, tbl) ==
    LET sortedData == sortData(applySearchFilter(data, tbl.searchTerm),
                               tbl.sortColumn, tbl.sortDirection)
    IN [rows |-> RowsUntilThrow(sortedData),
        threw |-> \E i \in DOMAIN sortedData : createTableRowThrows(sortedData[i])]

\* The table's own state, as one value.
Tbl == [sortColumn |-> sortColumn, sortDirection |-> sortDirection,
        searchTerm |-> searchTerm]

(***************************************************************************)
(* Statistics panel (statistics.js).                                       *)
(***************************************************************************)
\* The sum of the numbers of a list.
RECURSIVE Sum(_)
Sum(seq) == IF seq = <<>> THEN 0 ELSE Head(seq) + Sum(Tail(seq))

\* d3.mean and d3.sum skip null, undefined and NaN values.
Rated(data) == SelectSeq(data, LAMBDA d : d.rating.k = "number")

\* d3.mean(...) is undefined when no value is a number, and undefined.toFixed
\* is a TypeError.
updateStatsThrows(filteredData) ==
    Len(filteredData) > 0 /\ Len(Rated(filteredData)) = 0

\* What updateStats computes before it awaits loadLastUpdated(): the games
\* count, the ratings it averages (sum and number, in tenths) and the hours.
StatsOf(filteredData) ==
    LET rated == Rated(filteredData)
    IN [gamesCount |-> Len(filteredData),
        ratingSum |-> Sum([i \in DOMAIN rated |-> rated[i].rating.v]),
        ratingCount |-> Len(rated),
        totalHours |-> Sum([i \in DOMAIN filteredData |-> filteredData[i].hoursPlayedTotal])]

\* ToNumber of a rating that is a number or null (null is 0).
ToNumber(rating) == IF rating.k = "number" THEN rating.v ELSE 0

\* a > b on two ratings: a comparison with a string that is not a number
\* (NaN) is false.
RatingGreater(a, b) == a.k # "text" /\ b.k # "text" /\ ToNumber(a) > ToNumber(b)

\* [a, ...rest].reduce((a, b) => a.rating > b.rating ? a : b)
RECURSIVE reduceTopRated(_, _)
reduceTopRated(a, rest) ==
    IF rest = <<>> THEN a
    ELSE LET b == Head(rest)
         IN reduceTopRated(IF RatingGreater(a.rating, b.rating) THEN a ELSE b, Tail(rest))

\* [a, ...rest].reduce((a, b) => a.hoursPlayedTotal > b.hoursPlayedTotal ? a : b)
RECURSIVE reduceMostPlayed(_, _)
reduceMostPlayed(a, rest) ==
    IF rest = <<>> THEN a
    ELSE LET b == Head(rest)
         IN reduceMostPlayed(IF a.hoursPlayedTotal > b.hoursPlayedTotal THEN a ELSE b,
                             Tail(rest))

\* calculateDetailedStats(data).  avgRating is <<sum, number>> of the ratings
\* d3.mean averages, and <<>> when d3.mean returns undefined; topRated and
\* mostPlayed are <<>> for null and <<record>> otherwise.
calculateDetailedStats(data) ==
    IF Len(data) = 0
    THEN [count |-> 0, avgRating |-> <<0, 1>>, totalHours |-> 0,
          topRated |-> <<>>, mostPlayed |-> <<>>]
    ELSE LET rated == Rated(data)
         IN [count |-> Len(data),
             avgRating |-> IF rated = <<>> THEN <<>>
                           ELSE <<Sum([i \in DOMAIN rated |-> rated[i].rating.v]),
                                  Len(rated)>>,
             totalHours |-> Sum([i \in DOMAIN data |-> data[i].hoursPlayedTotal]),
             topRated |-> <<reduceTopRated(Head(data), Tail(data))>>,
             mostPlayed |-> <<reduceMostPlayed(Head(data), Tail(data))>>]

(***************************************************************************)
(* Rating boxplot by tag (boxplotChart.js).                                *)
(***************************************************************************)
\* d3.min, d3.max, d3.mean and d3.quantile (D3 7.8.5) take the numbers among
\* the values they are given: null, undefined and NaN are skipped.
NumbersOf(values) ==
    LET numbers == SelectSeq(values, LAMBDA r : r.k = "number")
    IN [i \in DOMAIN numbers |-> numbers[i].v]

RECURSIVE InsertNumber(_, _)
InsertNumber(sorted, x) ==
    IF sorted = <<>> THEN <<x>>
    ELSE IF x < Head(sorted) THEN <<x>> \o sorted
    ELSE <<Head(sorted)>> \o InsertNumber(Tail(sorted), x)

\* The numbers of a list in ascending order.
RECURSIVE SortNumbers(_)
SortNumbers(numbers) ==
    IF numbers = <<>> THEN <<>>
    ELSE InsertNumber(SortNumbers(Tail(numbers)), Head(numbers))

\* Variant: the quantile is the order statistic below the rank (no
\* interpolation).
d3quantileLower(numbers, quarters) ==
    LET s == SortNumbers(numbers)
        n == Len(s)
        i0 == ((n - 1) * quarters) \div 4
    IN 4 * s[i0 + 1]

\* d3.quantile(numbers, quarters / 4) for quarters in 1..3, in quarters of a
\* tenth: with i = (n - 1) * p and i0 = floor(i), value0 + (value1 - value0) *
\* (i - i0), value0 and value1 being the order statistics i0 and i0 + 1
\* (counted from 0); the only value when there is one.
d3quantile(numbers, quarters) ==
    LET s == SortNumbers(numbers)
        n == Len(s)
        i0 == ((n - 1) * quarters) \div 4
        r == ((n - 1) * quarters) % 4
    IN IF n < 2 THEN 4 * s[1]
       ELSE 4 * s[i0 + 1] + (IF r = 0 THEN 0 ELSE (s[i0 + 2] - s[i0 + 1]) * r)

\* Variant: the second operand whatever the first (a whisker is the fence
\* itself, not clamped to the data).
MaxTakesSecond(a, b) == b

Max(a, b) == IF a >= b THEN a ELSE b
Min(a, b) == IF a <= b THEN a ELSE b

\* values.slice().sort((a, b) => a - b): null counts as 0; a - b is NaN for
\* a string that is not a number, which leaves the string where it is met.
RECURSIVE InsertRating(_, _)
InsertRating(sorted, x) ==
    IF sorted = <<>> THEN <<x>>
    ELSE IF x.k # "text" /\ Head(sorted).k # "text" /\ ToNumber(x) < ToNumber(Head(sorted))
         THEN <<x>> \o sorted
         ELSE <<Head(sorted)>> \o InsertRating(Tail(sorted), x)

RECURSIVE sortAscending(_)
sortAscending(values) ==
    IF values = <<>> THEN <<>>
    ELSE InsertRating(sortAscending(Tail(values)), Head(values))

\* Variant: a value on a whisker counts as an outlier.
outliersInclusive(sorted, min, max) ==
    SelectSeq(sorted, LAMBDA d : d.k # "text" /\ (8 * ToNumber(d) <= min \/ 8 * ToNumber(d) >= max))

\* sorted.filter(d => d < min || d > max), min and max in eighths of a tenth.
outliersOf(sorted, min, max) ==
    SelectSeq(sorted, LAMBDA d : d.k # "text" /\ (8 * ToNumber(d) < min \/ 8 * ToNumber(d) > max))

\* calculateBoxplotStats(values), for the list of the ratings of some games:
\* <<>> for null; otherwise the values it was given, their number, their
\* d3.mean (as <<sum, number>> of the numbers among them, <<>> for undefined)
\* and, when a value is a number, q1, median, q3 and the whiskers min and max
\* in eighths of a tenth of a rating point, with the outliers.  Without a
\* number the quantiles are undefined, the whiskers NaN and nothing is an
\* outlier (defined is FALSE).
calculateBoxplotStats(values) ==
    IF Len(values) = 0 THEN <<>>
    ELSE LET numbers == NumbersOf(values)
             sorted == sortAscending(values)
             q1 == d3quantile(numbers, 1)
             median == d3quantile(numbers, 2)
             q3 == d3quantile(numbers, 3)
             iqr == q3 - q1
             ordered == SortNumbers(numbers)
             min == Max(8 * ordered[1], 2 * q1 - 3 * iqr)
             max == Min(8 * ordered[Len(ordered)], 2 * q3 + 3 * iqr)
         IN IF numbers = <<>>
            THEN <<[values |-> values, mean |-> <<>>, count |-> Len(values),
                    defined |-> FALSE, q1 |-> 0, median |-> 0, q3 |-> 0,
                    min |-> 0, max |-> 0, outliers |-> <<>>]>>
            ELSE <<[values |-> values,
                    mean |-> <<Sum(numbers), Len(numbers)>>,
                    count |-> Len(values),
                    defined |-> TRUE,
                    q1 |-> 2 * q1, median |-> 2 * median, q3 |-> 2 * q3,
                    min |-> min, max |-> max,
                    outliers |-> outliersOf(sorted, min, max)]>>

\* The tagStats of renderBoxplot(filteredData) while selectedTags are the
\* checked tag checkboxes, as a set of entries.
renderBoxplot(filteredData, selectedTags) ==
    IF Len(filteredData) = 0 \/ selectedTags = {} THEN {}
    ELSE LET tagGames(tag) == SelectSeq(filteredData, LAMBDA d : Includes(d.tags, tag))
             ratings(tag) == [i \in DOMAIN tagGames(tag) |-> tagGames(tag)[i].rating]
             stats(tag) == calculateBoxplotStats(ratings(tag))
         IN {[tag |-> tag, stats |-> stats(tag)[1], games |-> tagGames(tag)] :
                tag \in {t \in selectedTags : stats(t) # <<>> /\ stats(t)[1].count >= 1}}

(***************************************************************************)
(* The recomputation pass (main.js).                                       *)
(***************************************************************************)
\* Everything a pass writes, as one value.
Views == [timelineShown |-> timelineShown, tableData |-> tableData,
          tableRows |-> tableRows, aggData |-> aggData,
          playtimeShown |-> playtimeShown, statsPanel |-> statsPanel,
          pendingStats |-> pendingStats, lastPass |-> lastPass]

\* passes: the passes run by the latest event handler; filterCalls, filtered,
\* handed, stats: the calls of getFilteredData in the latest pass, what it
\* returned, the views that were given it, and the statistics updateStats
\* computed from it (none when it threw or was not reached).
NoPass == [passes |-> 0, filterCalls |-> 0, filtered |-> <<>>, handed |-> {},
           stats |-> <<>>]

\* Variant: the playtime scatter derives its own subset (the rated records).
updateVisualizationNarrowing(v, data, dom, tbl, cached) ==
    LET filteredData == getFilteredData(data, dom)
        table == renderTable(filteredData, tbl)
        statsOk == ~table.threw /\ ~updateStatsThrows(filteredData)
        computed == <<StatsOf(filteredData)>>
    IN [timelineShown |-> filteredData,
        tableData |-> filteredData,
        tableRows |-> table.rows,
        aggData |-> IF table.threw THEN v.aggData ELSE filteredData,
        playtimeShown |-> IF table.threw THEN v.playtimeShown ELSE Rated(filteredData),
        statsPanel |-> IF statsOk /\ cached THEN computed
                       ELSE v.statsPanel,
        pendingStats |-> IF statsOk /\ ~cached
                         THEN v.pendingStats \cup {computed[1]}
                         ELSE v.pendingStats,
        lastPass |-> [passes |-> v.lastPass.passes + 1,
                      filterCalls |-> 1,
                      filtered |-> filteredData,
                      stats |-> IF statsOk THEN computed ELSE <<>>,
                      handed |-> {"timeline", "table"} \cup
                                 (IF table.threw THEN {}
                                  ELSE {"aggregation", "playtime", "stats"})]]

\* Variant: the table keeps the rows of the previous pass and adds the new ones.
updateVisualizationAppending(v, data, dom, tbl, cached) ==
    LET filteredData == getFilteredData(data, dom)
        table == renderTable(filteredData, tbl)
        statsOk == ~table.threw /\ ~updateStatsThrows(filteredData)
        computed == <<StatsOf(filteredData)>>
    IN [timelineShown |-> filteredData,
        tableData |-> filteredData,
        tableRows |-> v.tableRows \o table.rows,
        aggData |-> IF table.threw THEN v.aggData ELSE filteredData,
        playtimeShown |-> IF table.threw THEN v.playtimeShown ELSE filteredData,
        statsPanel |-> IF statsOk /\ cached THEN computed
                       ELSE v.statsPanel,
        pendingStats |-> IF statsOk /\ ~cached
                         THEN v.pendingStats \cup {computed[1]}
                         ELSE v.pendingStats,
        lastPass |-> [passes |-> v.lastPass.passes + 1,
                      filterCalls |-> 1,
                      filtered |-> filteredData,
                      stats |-> IF statsOk THEN computed ELSE <<>>,
                      handed |-> {"timeline", "table"} \cup
                                 (IF table.threw THEN {}
                                  ELSE {"aggregation", "playtime", "stats"})]]

\* updateVisualization() up to its first suspension: one call of
\* getFilteredData, then the views in turn; an exception thrown by a view
\* ends the pass (the promise is rejected and the rejection logged).
\* cached: lastUpdatedData is set, so that updateStats resumes in a microtask
\* of the same turn; otherwise it waits for its own fetch.
updateVisualization(v, data, dom, tbl, cached) ==
    LET filteredData == getFilteredData(data, dom)
        table == renderTable(filteredData, tbl)
        statsRun == ~table.threw
        statsOk == statsRun /\ ~updateStatsThrows(filteredData)
        computed == <<StatsOf(filteredData)>>
    IN [timelineShown |-> filteredData,
        tableData |-> filteredData,
        tableRows |-> table.rows,
        aggData |-> IF table.threw THEN v.aggData ELSE filteredData,
        playtimeShown |-> IF table.threw THEN v.playtimeShown ELSE filteredData,
        statsPanel |-> IF statsOk /\ cached THEN computed
                       ELSE v.statsPanel,
        pendingStats |-> IF statsOk /\ ~cached
                         THEN v.pendingStats \cup {computed[1]}
                         ELSE v.pendingStats,
        lastPass |-> [passes |-> v.lastPass.passes + 1,
                      filterCalls |-> 1,
                      filtered |-> filteredData,
                      stats |-> IF statsOk THEN computed ELSE <<>>,
                      handed |-> {"timeline", "table"} \cup
                                 (IF table.threw THEN {}
                                  ELSE {"aggregation", "playtime", "stats"})]]

\* The state of the views at the start of an event handler.
HandlerStart == [Views EXCEPT !.lastPass.passes = 0]

\* Write a computed view state back to the variables.
SetViews(v) ==
    LET w == v
    IN /\ timelineShown' = w.timelineShown
       /\ tableData' = w.tableData
       /\ tableRows' = w.tableRows
       /\ aggData' = w.aggData
       /\ playtimeShown' = w.playtimeShown
       /\ statsPanel' = w.statsPanel
       /\ pendingStats' = w.pendingStats
       /\ lastPass' = w.lastPass

SetDom(dom) ==
    LET d == dom
    IN /\ platformBoxes' = d.platformBoxes
       /\ tagBoxes' = d.tagBoxes
       /\ statusBoxes' = d.statusBoxes
       /\ ratingBoxes' = d.ratingBoxes
       /\ startDate' = d.startDate
       /\ endDate' = d.endDate

\* document.dispatchEvent(new CustomEvent('filtersChanged')): the listener of
\* setupEventListeners runs a pass on the controls as they are now.
filtersChanged(v, dom) == updateVisualization(v, gameData, dom, Tbl, lastUpdatedData)

\* One filtersChanged after the other, each with the controls as they are when
\* it is dispatched.
RECURSIVE filtersChangedEach(_, _)
filtersChangedEach(v, doms) ==
    IF doms = <<>> THEN v
    ELSE LET w == filtersChanged(v, Head(doms))
         IN filtersChangedEach(w, Tail(doms))

(***************************************************************************)
(* Playtime aggregation chart (playtimeAggregationChart.js).               *)
(***************************************************************************)
AggregationTypes == {"platform", "tag", "status", "rating"}

\* getRatingRange of the aggregation chart.
aggregationGetRatingRange(rating) ==
    IF rating.k = "null" THEN "No Rating"
    ELSE IF RatingAtLeast(rating, 90) THEN "9-10"
    ELSE IF RatingAtLeast(rating, 80) THEN "8-9"
    ELSE IF RatingAtLeast(rating, 70) THEN "7-8"
    ELSE IF RatingAtLeast(rating, 60) THEN "6-7"
    ELSE IF RatingAtLeast(rating, 50) THEN "5-6"
    ELSE "<5"

\* Variant: every platform of a game is given the game's total hours.
ContributionsTotalPerPlatform(game, type) ==
    CASE type = "platform" ->
            [i \in DOMAIN game.platforms |-> <<game.platforms[i], game.hoursPlayedTotal>>]
      [] type = "tag" ->
            [i \in DOMAIN game.tags |-> <<game.tags[i], game.hoursPlayedTotal>>]
      [] type = "status" ->
            <<<<IF game.status = NoStatus THEN "Unknown" ELSE game.status,
                game.hoursPlayedTotal>>>>
      [] OTHER ->
            <<<<aggregationGetRatingRange(game.rating), game.hoursPlayedTotal>>>>

\* Variant: a game counts for the first of its tags only.
ContributionsFirstTag(game, type) ==
    CASE type = "platform" ->
            [i \in DOMAIN game.platforms |->
                <<game.platforms[i],
                  IF i \in DOMAIN game.hoursPlayedSingle
                  THEN game.hoursPlayedSingle[i] ELSE 0>>]
      [] type = "tag" ->
            [i \in DOMAIN game.tags \cap {1} |-> <<game.tags[i], game.hoursPlayedTotal>>]
      [] type = "status" ->
            <<<<IF game.status = NoStatus THEN "Unknown" ELSE game.status,
                game.hoursPlayedTotal>>>>
      [] OTHER ->
            <<<<aggregationGetRatingRange(game.rating), game.hoursPlayedTotal>>>>

\* Variant: a game without a rating is left out of the rating dimension.
ContributionsUnratedDropped(game, type) ==
    CASE type = "platform" ->
            [i \in DOMAIN game.platforms |->
                <<game.platforms[i],
                  IF i \in DOMAIN game.hoursPlayedSingle
                  THEN game.hoursPlayedSingle[i] ELSE 0>>]
      [] type = "tag" ->
            [i \in DOMAIN game.tags |-> <<game.tags[i], game.hoursPlayedTotal>>]
      [] type = "status" ->
            <<<<IF game.status = NoStatus THEN "Unknown" ELSE game.status,
                game.hoursPlayedTotal>>>>
      [] OTHER ->
            IF game.rating.k = "null" THEN <<>>
            ELSE <<<<aggregationGetRatingRange(game.rating), game.hoursPlayedTotal>>>>

\* The categories a game contributes to, with the hours it adds to each, as a
\* list of <<category, hours>>.
Contributions(game, type) ==
    CASE type = "platform" ->
            [i \in DOMAIN game.platforms |->
                <<game.platforms[i],
                  IF i \in DOMAIN game.hoursPlayedSingle
                  THEN game.hoursPlayedSingle[i] ELSE 0>>]
      [] type = "tag" ->
            [i \in DOMAIN game.tags |-> <<game.tags[i], game.hoursPlayedTotal>>]
      [] type = "status" ->
            <<<<IF game.status = NoStatus THEN "Unknown" ELSE game.status,
                game.hoursPlayedTotal>>>>
      [] OTHER ->
            <<<<aggregationGetRatingRange(game.rating), game.hoursPlayedTotal>>>>

RECURSIVE AllContributions(_, _)
AllContributions(data, type) ==
    IF data = <<>> THEN <<>>
    ELSE Contributions(Head(data), type) \o AllContributions(Tail(data), type)

\* aggregatePlaytimeData(data, type), as the set of its buckets: the
\* categories whose hours add up to more than zero.
aggregatePlaytimeData(data, type) ==
    LET contribs == AllContributions(data, type)
        categories == {contribs[i][1] : i \in DOMAIN contribs}
        of(c) == SelectSeq(contribs, LAMBDA x : x[1] = c)
        bucket(c) == [category |-> c,
                      totalHours |-> Sum([i \in DOMAIN of(c) |-> of(c)[i][2]]),
                      gameCount |-> Len(of(c))]
    IN {b \in {bucket(c) : c \in categories} : b.totalHours > 0}

\* The order of the bars of the rating dimension (renderPlaytimeAggregation).
ratingOrder == <<"9-10", "8-9", "7-8", "6-7", "5-6", "<5", "No Rating">>

\* Object.values(aggregation).filter(d => d.totalHours > 0): the buckets in the
\* order in which their categories were first met.
aggregatedValues(data, type) ==
    LET contribs == AllContributions(data, type)
        categories == Distinct([i \in DOMAIN contribs |-> contribs[i][1]])
        of(c) == SelectSeq(contribs, LAMBDA x : x[1] = c)
        bucket(c) == [category |-> c,
                      totalHours |-> Sum([i \in DOMAIN of(c) |-> of(c)[i][2]]),
                      gameCount |-> Len(of(c))]
    IN SelectSeq([i \in DOMAIN categories |-> bucket(categories[i])],
                 LAMBDA b : b.totalHours > 0)

\* ratingOrder.indexOf(category)
ratingIndex(category) ==
    IF \E i \in DOMAIN ratingOrder : ratingOrder[i] = category
    THEN (CHOOSE i \in DOMAIN ratingOrder : ratingOrder[i] = category) - 1
    ELSE -1

\* A comparator that always orders by total playtime, descending.
compareBucketsByHours(a, b, type) == b.totalHours - a.totalHours

\* The comparator renderPlaytimeAggregation hands to sort().
compareBuckets(a, b, type) ==
    IF type = "rating" THEN ratingIndex(a.category) - ratingIndex(b.category)
    ELSE b.totalHours - a.totalHours

\* Array.prototype.sort(compare), which is stable: a bucket goes behind every
\* bucket that does not compare greater than it.
RECURSIVE sortBuckets(_, _)
sortBuckets(buckets, type) ==
    IF buckets = <<>> THEN <<>>
    ELSE LET front == sortBuckets(SubSeq(buckets, 1, Len(buckets) - 1), type)
             last == buckets[Len(buckets)]
             before == {i \in DOMAIN front : compareBuckets(front[i], last, type) <= 0}
             k == IF before = {} THEN 0
                  ELSE CHOOSE i \in before : \A j \in before : j <= i
         IN SubSeq(front, 1, k) \o <<last>> \o SubSeq(front, k + 1, Len(front))

\* The bars renderPlaytimeAggregation(filteredData) draws, in order.
renderPlaytimeAggregation(filteredData, type) ==
    IF Len(filteredData) = 0 THEN <<>>
    ELSE sortBuckets(aggregatedValues(filteredData, type), type)

\* The bars renderPlaytimeAggregation draws for the chart's current data.
Bars == IF aggData = <<>> THEN {}
        ELSE aggregatePlaytimeData(aggData, currentAggregationType)

(***************************************************************************)
(* Operations on the controls (filters.js).                                *)
(***************************************************************************)
\* querySelectorAll('#... input').forEach(cb => cb.checked = b)
SetAll(boxes, b) == [i \in DOMAIN boxes |-> [boxes[i] EXCEPT !.checked = b]]

\* The first checkbox of the list with the given value, 0 when there is none.
FirstWithValue(boxes, value) ==
    IF \E i \in DOMAIN boxes : boxes[i].value = value
    THEN CHOOSE i \in DOMAIN boxes :
            /\ boxes[i].value = value
            /\ \A j \in 1..(i - 1) : boxes[j].value # value
    ELSE 0

\* Uncheck all, then check the first checkbox whose value is the given one.
SelectOnly(boxes, value) ==
    LET i == FirstWithValue(boxes, value)
    IN IF i = 0 THEN SetAll(boxes, FALSE)
       ELSE [SetAll(boxes, FALSE) EXCEPT ![i].checked = TRUE]

\* document.querySelector(`#rating-${range}`) is a syntax error for a range
\* that does not form a selector: '<' cannot occur in one.
SelectorThrows(range) == range = "<5"

\* The controls of one facet ("platformBoxes", ...) replaced.
WithBoxes(dom, facet, boxes) == [dom EXCEPT ![facet] = boxes]

Facets == {"platformBoxes", "tagBoxes", "statusBoxes", "ratingBoxes"}

FacetOfType(type) ==
    CASE type = "platform" -> "platformBoxes"
      [] type = "tag" -> "tagBoxes"
      [] type = "status" -> "statusBoxes"
      [] OTHER -> "ratingBoxes"

\* getRatingRange of the games table: no case for a missing rating.
tableGetRatingRange(rating) ==
    IF RatingAtLeast(rating, 90) THEN "9-10"
    ELSE IF RatingAtLeast(rating, 80) THEN "8-9"
    ELSE IF RatingAtLeast(rating, 70) THEN "7-8"
    ELSE IF RatingAtLeast(rating, 60) THEN "6-7"
    ELSE IF RatingAtLeast(rating, 50) THEN "5-6"
    ELSE "<5"

\* The filter requests the page offers: the onclick handlers createTableRow
\* puts on the badges of the rows, and the bars of the aggregation chart
\* (handleBarClick), each as <<type, value>>.
FilterRequests ==
    UNION {
        {<<"platform", tableRows[r].platforms[i]>> : i \in DOMAIN tableRows[r].platforms}
        \cup {<<"tag", tableRows[r].tags[i]>> : i \in DOMAIN tableRows[r].tags}
        \cup {<<"status", IF tableRows[r].status = NoStatus THEN "Unknown"
                          ELSE tableRows[r].status>>}
        \cup (IF tableRows[r].rating.k = "null" THEN {}
              ELSE {<<"rating", tableGetRatingRange(tableRows[r].rating)>>})
        : r \in DOMAIN tableRows}
    \cup {<<currentAggregationType, b.category>> : b \in Bars}

\* The extent clearDateFilter writes to the two date inputs.
WithFullDateRange(dom) ==
    [dom EXCEPT !.startDate = populateDateFilters(gameData)[1],
                !.endDate = populateDateFilters(gameData)[2]]

(***************************************************************************)
(* Initial state: the modules are loaded, DOMContentLoaded has not fired.  *)
(***************************************************************************)
\* No function has been applied on its own yet.
NoCall == [fn |-> "none", data |-> <<>>, arg |-> <<>>]

Init ==
    /\ phase = "start"
    /\ tz \in TimeZones
    /\ gameData = <<>>
    /\ platformBoxes = <<>>
    /\ tagBoxes = <<>>
    /\ statusBoxes = <<>>
    /\ ratingBoxes = <<>>
    /\ startDate = BadDate
    /\ endDate = BadDate
    /\ dateListeners = 0
    /\ csvRows = <<>>
    /\ timelineShown = <<>>
    /\ tableData = <<>>
    /\ tableRows = <<>>
    /\ aggData = <<>>
    /\ playtimeShown = <<>>
    /\ statsPanel = <<>>
    /\ lastUpdatedData = FALSE
    /\ pendingStats = {}
    /\ sortColumn = "rating"
    /\ sortDirection = "desc"
    /\ searchTerm = ""
    /\ searchInput = ""
    /\ searchTimeout = FALSE
    /\ searchBurst = "none"
    /\ currentAggregationType = "platform"
    /\ lastPass = NoPass
    /\ ops = 0
    /\ ratingIn = NullRating
    /\ ratingOut = <<>>
    /\ derivedIn = NoCall
    /\ derivedOut = <<>>

TableVars == <<sortColumn, sortDirection, searchTerm, searchInput, searchTimeout,
               searchBurst>>
DomVars == <<platformBoxes, tagBoxes, statusBoxes, ratingBoxes, startDate, endDate>>
ViewVars == <<timelineShown, tableData, tableRows, aggData, playtimeShown, statsPanel,
              pendingStats, lastPass>>
ProbeVars == <<ratingIn, ratingOut, derivedIn, derivedOut>>

(***************************************************************************)
(* initializeDashboard (main.js) and loadGameData (dataLoader.js).         *)
(***************************************************************************)
\* The dataset is fetched; the charts are set up, the controls populated, the
\* listeners installed and the first pass run.
initializeDashboard(pool) ==
    /\ phase = "start"
    /\ \E data \in Datasets(pool) :
         LET dom == [platformBoxes |-> populatePlatformFilters(platformBoxes, data),
                     tagBoxes |-> populateTagFilters(tagBoxes, data),
                     statusBoxes |-> populateStatusFilters(statusBoxes, data),
                     ratingBoxes |-> populateRatingFilters(ratingBoxes, data),
                     startDate |-> populateDateFilters(data)[1],
                     endDate |-> populateDateFilters(data)[2]]
             \* initializePlaytimeAggregation(data) shows the whole dataset
             v0 == [HandlerStart EXCEPT !.aggData = data]
         IN /\ gameData' = data
            /\ SetDom(dom)
            /\ SetViews(updateVisualization(v0, data, dom, Tbl, lastUpdatedData))
    /\ dateListeners' = dateListeners + 1
    /\ phase' = "ready"
    /\ UNCHANGED <<tz, csvRows, lastUpdatedData, TableVars, currentAggregationType, ops,
                   ProbeVars>>

\* Variant: loadGameData swallows the error and initializeDashboard goes on to
\* its first pass, without a dataset.
loadGameDataFailsThenRuns ==
    /\ phase = "start"
    /\ phase' = "failed"
    /\ SetViews(updateVisualization(HandlerStart, <<>>, Dom, Tbl, lastUpdatedData))
    /\ UNCHANGED <<tz, gameData, dateListeners, csvRows, DomVars, lastUpdatedData, TableVars,
                   currentAggregationType, ops, ProbeVars>>

\* fetch or response.json() fails: loadGameData re-throws and
\* initializeDashboard only logs the error.
loadGameDataFails ==
    /\ phase = "start"
    /\ phase' = "failed"
    /\ UNCHANGED <<tz, gameData, dateListeners, csvRows, DomVars, ViewVars, lastUpdatedData, TableVars,
                   currentAggregationType, ops, ProbeVars>>

(***************************************************************************)
(* User events on the filter controls.  Each handler runs to completion.   *)
(***************************************************************************)
Ready == phase = "ready" /\ ops < MaxOps

OtherVars == <<phase, tz, gameData, dateListeners, csvRows, lastUpdatedData, TableVars, currentAggregationType,
               ProbeVars>>

\* A handler that leaves the controls as dom and then dispatches filtersChanged.
ChangeAndNotify(dom) ==
    /\ LET d == dom
       IN SetDom(d) /\ SetViews(filtersChanged(HandlerStart, d))
    /\ ops' = ops + 1
    /\ UNCHANGED OtherVars

\* A handler that leaves the controls as dom and dispatches nothing.
ChangeSilently(dom) ==
    /\ SetDom(dom)
    /\ SetViews(HandlerStart)
    /\ ops' = ops + 1
    /\ UNCHANGED OtherVars

\* The user clicks a checkbox: its "change" listener dispatches filtersChanged.
toggleCheckbox ==
    /\ Ready
    /\ \E facet \in Facets : \E i \in DOMAIN Dom[facet] :
         ChangeAndNotify([Dom EXCEPT ![facet][i].checked = ~Dom[facet][i].checked])

DateInputs == {Iso(d) : d \in 0..MaxDay} \cup {BadDate}

\* The user edits (or empties) one of the two date inputs.
\* Each "change" listener populateDateFilters has put on the input dispatches
\* filtersChanged.
ChangeAndNotifyEach(dom, listeners) ==
    /\ LET d == dom
       IN SetDom(d)
          /\ SetViews(filtersChangedEach(HandlerStart, [i \in 1..listeners |-> d]))
    /\ ops' = ops + 1
    /\ UNCHANGED OtherVars

changeDate ==
    /\ Ready
    /\ \E value \in DateInputs :
         \/ value # startDate
            /\ ChangeAndNotifyEach([Dom EXCEPT !.startDate = value], dateListeners)
         \/ value # endDate
            /\ ChangeAndNotifyEach([Dom EXCEPT !.endDate = value], dateListeners)

\* clearPlatformFilters, clearTagFilters, clearStatusFilters, clearRatingFilters
clearFilters ==
    /\ Ready
    /\ \E facet \in Facets :
         ChangeAndNotify(WithBoxes(Dom, facet, SetAll(Dom[facet], FALSE)))

clearDateFilter ==
    /\ Ready
    /\ ChangeAndNotify(WithFullDateRange(Dom))

\* selectAllPlatforms, selectAllTags, selectAllStatuses, selectAllRatings
selectAll ==
    /\ Ready
    /\ \E facet \in Facets :
         ChangeAndNotify(WithBoxes(Dom, facet, SetAll(Dom[facet], TRUE)))

\* resetAllFilters: the four select-all functions and clearDateFilter in turn,
\* each dispatching filtersChanged on the controls as they are at that point.
resetAllFilters ==
    /\ Ready
    /\ LET dom1 == WithBoxes(Dom, "platformBoxes", SetAll(platformBoxes, TRUE))
           dom2 == WithBoxes(dom1, "tagBoxes", SetAll(tagBoxes, TRUE))
           dom3 == WithBoxes(dom2, "statusBoxes", SetAll(statusBoxes, TRUE))
           dom4 == WithBoxes(dom3, "ratingBoxes", SetAll(ratingBoxes, TRUE))
           dom5 == WithFullDateRange(dom4)
       IN /\ SetDom(dom5)
          /\ SetViews(filtersChangedEach(HandlerStart, <<dom1, dom2, dom3, dom4, dom5>>))
    /\ ops' = ops + 1
    /\ UNCHANGED OtherVars

\* selectOnlyPlatform, selectOnlyTag, selectOnlyStatus: filtersChanged is
\* dispatched inside the loop, when the checkbox is found.
selectOnlyByValue(facet, value) ==
    IF FirstWithValue(Dom[facet], value) = 0
    THEN ChangeSilently(WithBoxes(Dom, facet, SelectOnly(Dom[facet], value)))
    ELSE ChangeAndNotify(WithBoxes(Dom, facet, SelectOnly(Dom[facet], value)))

\* selectOnlyRating: the checkbox is looked up by a selector built from the
\* range; when the lookup throws, the handler ends after the unchecking.
selectOnlyRating(range) ==
    IF SelectorThrows(range)
    THEN ChangeSilently(WithBoxes(Dom, "ratingBoxes", SetAll(ratingBoxes, FALSE)))
    ELSE ChangeAndNotify(WithBoxes(Dom, "ratingBoxes", SelectOnly(ratingBoxes, range)))

\* A click on a badge of the table or on a bar of the aggregation chart:
\* window.filterBy*(value) dispatches tableFilterRequested.
handleTableFilterRequest ==
    /\ Ready
    /\ \E request \in FilterRequests :
         IF request[1] = "rating" THEN selectOnlyRating(request[2])
         ELSE selectOnlyByValue(FacetOfType(request[1]), request[2])

(***************************************************************************)
(* The last-updated fetch of a suspended updateStats settles.              *)
(***************************************************************************)
\* fetch and response.json() succeed: the result is cached and the panel
\* written with the statistics that call computed.
lastUpdatedLoaded ==
    /\ \E stats \in pendingStats :
         /\ statsPanel' = <<stats>>
         /\ pendingStats' = pendingStats \ {stats}
    /\ lastUpdatedData' = TRUE
    /\ UNCHANGED <<phase, tz, gameData, dateListeners, csvRows, DomVars, timelineShown, tableData, tableRows,
                   aggData, playtimeShown, lastPass, TableVars,
                   currentAggregationType, ops, ProbeVars>>

\* The fetch fails: loadLastUpdated returns { lastUpdated: null } and the panel
\* is written all the same.
lastUpdatedFailed ==
    /\ \E stats \in pendingStats :
         /\ statsPanel' = <<stats>>
         /\ pendingStats' = pendingStats \ {stats}
    /\ UNCHANGED <<phase, tz, gameData, dateListeners, csvRows, DomVars, timelineShown, tableData, tableRows,
                   aggData, playtimeShown, lastPass, lastUpdatedData, TableVars,
                   currentAggregationType, ops, ProbeVars>>

(***************************************************************************)
(* User events on the table and on the aggregation chart.                  *)
(***************************************************************************)
TableEventUnchanged ==
    UNCHANGED <<phase, tz, gameData, dateListeners, DomVars, timelineShown, tableData, aggData,
                playtimeShown, statsPanel, pendingStats, lastUpdatedData,
                currentAggregationType, ProbeVars>>

\* renderTable(currentData) after a change of the table's own state.
Rerender(tbl) ==
    /\ tableRows' = renderTable(tableData, tbl).rows
    /\ lastPass' = [lastPass EXCEPT !.passes = 0]
    /\ ops' = ops + 1

\* Variant: a click on another column's header keeps the direction.
sortHeaderClickKeepingDirection ==
    /\ Ready
    /\ \E column \in SortColumns :
         /\ IF sortColumn = column
            THEN /\ sortDirection' = (IF sortDirection = "asc" THEN "desc" ELSE "asc")
                 /\ sortColumn' = sortColumn
            ELSE /\ sortColumn' = column
                 /\ sortDirection' = sortDirection
         /\ Rerender([Tbl EXCEPT !.sortColumn = sortColumn',
                                 !.sortDirection = sortDirection'])
    /\ UNCHANGED <<searchTerm, searchInput, searchTimeout, searchBurst, csvRows>>
    /\ TableEventUnchanged

\* A click on a sortable column header (initializeTableSorting).
sortHeaderClick ==
    /\ Ready
    /\ \E column \in SortColumns :
         /\ IF sortColumn = column
            THEN /\ sortDirection' = (IF sortDirection = "asc" THEN "desc" ELSE "asc")
                 /\ sortColumn' = sortColumn
            ELSE /\ sortColumn' = column
                 /\ sortDirection' = "asc"
         /\ Rerender([Tbl EXCEPT !.sortColumn = sortColumn',
                                 !.sortDirection = sortDirection'])
    /\ UNCHANGED <<searchTerm, searchInput, searchTimeout, searchBurst, csvRows>>
    /\ TableEventUnchanged

\* An input event on #gameSearch: the debounce timer is (re)armed.
searchInputEvent ==
    /\ Ready
    /\ \E value \in SearchTerms \ {searchInput} : searchInput' = value
    /\ searchTimeout' = TRUE
    /\ searchBurst' = "typing"
    /\ ops' = ops + 1
    /\ lastPass' = [lastPass EXCEPT !.passes = 0]
    /\ UNCHANGED <<sortColumn, sortDirection, searchTerm, tableRows, csvRows>>
    /\ TableEventUnchanged

\* The debounce timer fires: setSearchTerm(e.target.value).
searchTimeoutFires ==
    /\ phase = "ready"
    /\ searchTimeout
    /\ searchTimeout' = FALSE
    /\ searchBurst' = "applied"
    /\ searchTerm' = searchInput
    /\ tableRows' = renderTable(tableData, [Tbl EXCEPT !.searchTerm = searchInput]).rows
    /\ lastPass' = [lastPass EXCEPT !.passes = 0]
    /\ UNCHANGED <<sortColumn, sortDirection, searchInput, ops, csvRows>>
    /\ TableEventUnchanged

\* Variant: Enter applies the value and leaves the timer armed.
searchEnterKeepsTimer ==
    /\ Ready
    /\ searchBurst' = "applied"
    /\ searchTerm' = searchInput
    /\ Rerender([Tbl EXCEPT !.searchTerm = searchInput])
    /\ UNCHANGED <<sortColumn, sortDirection, searchInput, searchTimeout, csvRows>>
    /\ TableEventUnchanged

\* Enter in #gameSearch: the timer is cleared and the value applied at once.
searchEnter ==
    /\ Ready
    /\ searchTimeout' = FALSE
    /\ searchBurst' = "applied"
    /\ searchTerm' = searchInput
    /\ Rerender([Tbl EXCEPT !.searchTerm = searchInput])
    /\ UNCHANGED <<sortColumn, sortDirection, searchInput, csvRows>>
    /\ TableEventUnchanged

\* clearSearch (window.clearGameSearch): the timer is left alone.
clearSearch ==
    /\ Ready
    /\ searchInput' = ""
    /\ searchTerm' = ""
    /\ Rerender([Tbl EXCEPT !.searchTerm = ""])
    /\ UNCHANGED <<sortColumn, sortDirection, searchTimeout, searchBurst, csvRows>>
    /\ TableEventUnchanged

\* downloadTableAsCSV (the download button): the records of the table's data
\* that match the search term, sorted as the table sorts them; no file when
\* there is none.
downloadTableAsCSV ==
    /\ Ready
    /\ LET searchFilteredData == applySearchFilter(tableData, searchTerm)
           sortedData == sortData(searchFilteredData, sortColumn, sortDirection)
       IN csvRows' = IF Len(searchFilteredData) = 0 THEN csvRows ELSE <<sortedData>>
    /\ lastPass' = [lastPass EXCEPT !.passes = 0]
    /\ ops' = ops + 1
    /\ UNCHANGED <<TableVars, tableRows>>
    /\ TableEventUnchanged

\* Variant: the click also dispatches filtersChanged.
aggregationButtonClickRefiltering ==
    /\ Ready
    /\ \E type \in AggregationTypes \ {currentAggregationType} :
         currentAggregationType' = type
    /\ ops' = ops + 1
    /\ SetViews(filtersChanged(HandlerStart, Dom))
    /\ UNCHANGED <<phase, tz, gameData, dateListeners, csvRows, DomVars, lastUpdatedData, TableVars, ProbeVars>>

\* A click on one of the four aggregation buttons (setupAggregationControls).
aggregationButtonClick ==
    /\ Ready
    /\ \E type \in AggregationTypes \ {currentAggregationType} :
         currentAggregationType' = type
    /\ ops' = ops + 1
    /\ lastPass' = [lastPass EXCEPT !.passes = 0]
    /\ UNCHANGED <<phase, tz, gameData, dateListeners, csvRows, DomVars, timelineShown, tableData, tableRows,
                   aggData, playtimeShown, statsPanel, pendingStats, lastUpdatedData,
                   TableVars, ProbeVars>>

(***************************************************************************)
(* The dashboard.                                                          *)
(***************************************************************************)
FilterEvents ==
    \/ toggleCheckbox
    \/ changeDate
    \/ clearFilters
    \/ clearDateFilter
    \/ selectAll
    \/ resetAllFilters
    \/ handleTableFilterRequest

Next ==
    \/ initializeDashboard(WellFormedGames)
    \/ loadGameDataFails
    \/ FilterEvents
    \/ lastUpdatedLoaded
    \/ lastUpdatedFailed
    \/ sortHeaderClick
    \/ searchInputEvent
    \/ searchTimeoutFires
    \/ searchEnter
    \/ clearSearch
    \/ aggregationButtonClick

Spec == Init /\ [][Next]_vars

\* The filter on its own, over datasets that may hold a malformed rating or
\* date.
NextFilter ==
    \/ initializeDashboard(AllGames)
    \/ FilterEvents
    \/ lastUpdatedLoaded
    \/ lastUpdatedFailed

SpecFilter == Init /\ [][NextFilter]_vars

(***************************************************************************)
(* The dataset is replaced and the controls are built again.               *)
(***************************************************************************)
\* setGameData(data) followed by populateFilters(): the populate functions
\* append to the containers as they are and populateDateFilters adds its
\* listeners once more.  Nothing is dispatched.
repopulateFilters(pool) ==
    /\ Ready
    /\ \E data \in Datasets(pool) :
         /\ gameData' = data
         /\ SetDom([platformBoxes |-> populatePlatformFilters(platformBoxes, data),
                    tagBoxes |-> populateTagFilters(tagBoxes, data),
                    statusBoxes |-> populateStatusFilters(statusBoxes, data),
                    ratingBoxes |-> populateRatingFilters(ratingBoxes, data),
                    startDate |-> populateDateFilters(data)[1],
                    endDate |-> populateDateFilters(data)[2]])
    /\ dateListeners' = dateListeners + 1
    /\ SetViews(HandlerStart)
    /\ ops' = ops + 1
    /\ UNCHANGED <<phase, tz, csvRows, lastUpdatedData, TableVars, currentAggregationType,
                   ProbeVars>>

NextReload ==
    \/ initializeDashboard(WellFormedGames)
    \/ repopulateFilters(WellFormedGames)
    \/ toggleCheckbox
    \/ changeDate

SpecReload == Init /\ [][NextReload]_vars

(***************************************************************************)
(* The table on its own: filter events, header clicks, the search box and  *)
(* the CSV download.                                                       *)
(***************************************************************************)
NextTable ==
    \/ initializeDashboard(WellFormedGames)
    \/ toggleCheckbox
    \/ sortHeaderClick
    \/ searchInputEvent
    \/ searchTimeoutFires
    \/ searchEnter
    \/ clearSearch
    \/ downloadTableAsCSV

SpecTable == Init /\ [][NextTable]_vars

\* The search box on its own.  A timer armed by setTimeout fires unless it is
\* cleared: the browser's event loop runs every due timer.
NextSearch ==
    \/ initializeDashboard(WellFormedGames)
    \/ searchInputEvent
    \/ searchTimeoutFires
    \/ searchEnter
    \/ clearSearch

SpecSearch == Init /\ [][NextSearch]_vars /\ WF_vars(searchTimeoutFires)

(***************************************************************************)
(* The three getRatingRange functions on their own.                        *)
(***************************************************************************)
MaxRating == 100

InitRating ==
    /\ Init
    /\ tz = 0

\* A rating is drawn and given to the three functions.
applyRatingRange ==
    /\ phase = "start"
    /\ \E v \in 0..MaxRating :
         /\ ratingIn' = Num(v)
         /\ ratingOut' = <<getRatingRange(Num(v)), tableGetRatingRange(Num(v)),
                           aggregationGetRatingRange(Num(v))>>
    /\ UNCHANGED <<phase, tz, gameData, dateListeners, csvRows, DomVars, ViewVars, lastUpdatedData, TableVars,
                   currentAggregationType, ops, derivedIn, derivedOut>>

SpecRating == InitRating /\ [][applyRatingRange]_vars

(***************************************************************************)
(* The statistics and aggregation functions on their own: each is given a  *)
(* list of records, as a pass gives it the filtered subset.                *)
(***************************************************************************)
DerivedUnchanged ==
    UNCHANGED <<phase, tz, gameData, dateListeners, csvRows, DomVars, ViewVars, lastUpdatedData, TableVars,
                currentAggregationType, ops, ratingIn, ratingOut>>

applyDetailedStats ==
    /\ phase = "start"
    /\ derivedIn = NoCall
    /\ \E data \in Datasets(DerivedGames) :
         /\ derivedIn' = [fn |-> "calculateDetailedStats", data |-> data, arg |-> <<>>]
         /\ derivedOut' = calculateDetailedStats(data)
    /\ DerivedUnchanged

applyAggregatePlaytimeData ==
    /\ phase = "start"
    /\ derivedIn = NoCall
    /\ \E data \in Datasets(DerivedGames), type \in AggregationTypes :
         /\ derivedIn' = [fn |-> "aggregatePlaytimeData", data |-> data, arg |-> type]
         /\ derivedOut' = aggregatePlaytimeData(data, type)
    /\ DerivedUnchanged

applyRenderBoxplot ==
    /\ phase = "start"
    /\ derivedIn = NoCall
    /\ \E data \in Datasets(DerivedGames), selectedTags \in SUBSET AllTags :
         /\ derivedIn' = [fn |-> "renderBoxplot", data |-> data, arg |-> selectedTags]
         /\ derivedOut' = renderBoxplot(data, selectedTags)
    /\ DerivedUnchanged

\* The longest list of ratings given to calculateBoxplotStats.
MaxValues == 5

\* The ratings of those lists, in tenths.
BoxplotRatings == {10, 60, 70, 80, 90, 99}

\* A list of seven ratings with a low and a high outlier.
SevenRatings == <<Num(10), Num(80), Num(82), Num(83), Num(85), Num(87), Num(99)>>

RatingLists ==
    {SevenRatings} \cup
    UNION {[1..n -> {Num(v) : v \in BoxplotRatings}] : n \in 1..MaxValues}

applyBoxplotStats ==
    /\ phase = "start"
    /\ derivedIn = NoCall
    /\ \E values \in RatingLists :
         /\ derivedIn' = [fn |-> "calculateBoxplotStats", data |-> values, arg |-> <<>>]
         /\ derivedOut' = calculateBoxplotStats(values)[1]
    /\ DerivedUnchanged

applyRenderPlaytimeAggregation ==
    /\ phase = "start"
    /\ derivedIn = NoCall
    /\ \E data \in Datasets(DerivedGames), type \in AggregationTypes :
         /\ derivedIn' = [fn |-> "renderPlaytimeAggregation", data |-> data, arg |-> type]
         /\ derivedOut' = renderPlaytimeAggregation(data, type)
    /\ DerivedUnchanged

NextDerived ==
    \/ applyDetailedStats
    \/ applyAggregatePlaytimeData
    \/ applyRenderPlaytimeAggregation
    \/ applyRenderBoxplot
    \/ applyBoxplotStats

SpecDerived == InitRating /\ [][NextDerived]_vars

(***************************************************************************)
(* Properties of the filter.                                               *)
(***************************************************************************)
\* The selected values of the four checkbox facets, as sets.
SelectedPlatforms == Range(Selected(platformBoxes))
SelectedTags == Range(Selected(tagBoxes))
SelectedStatuses == Range(Selected(statusBoxes))
SelectedRatings == Range(Selected(ratingBoxes))

\* The latest handler ended with a pass, so the pass saw the controls as they
\* are now.
PassIsCurrent == phase = "ready" /\ lastPass.passes > 0

\* The facets as the specification words them: one of the record's values is
\* selected (or nothing is selected); the status is selected; the rating's
\* bucket is selected (or nothing is); the date is valid and in the interval.
PlatformFacet(d) == SelectedPlatforms = {} \/ Range(d.platforms) \cap SelectedPlatforms # {}
TagFacet(d) == SelectedTags = {} \/ Range(d.tags) \cap SelectedTags # {}
StatusFacet(d) == d.status \in SelectedStatuses
RatingFacet(d) == SelectedRatings = {} \/ getRatingRange(d.rating) \in SelectedRatings
DateFacet(d) ==
    LET gameDate == NewDate(d.lastPlayedTotal)
    IN /\ gameDate.valid /\ FilterStart(Dom).valid /\ FilterEnd(Dom).valid
       /\ FilterStart(Dom).t <= gameDate.t /\ gameDate.t <= FilterEnd(Dom).t

\* The positions of the dataset whose record satisfies a predicate, and the
\* records at these positions in increasing order of position.
Positions(P(_)) == {i \in DOMAIN gameData : P(gameData[i])}

RECURSIVE InOrder(_)
InOrder(positions) ==
    IF positions = {} THEN <<>>
    ELSE LET top == CHOOSE i \in positions : \A j \in positions : j <= i
         IN Append(InOrder(positions \ {top}), gameData[top])

\* C1: after a pass, the filtered subset is the records of the dataset that
\* pass the platform, tag, status, rating and date facets all at once, each
\* once and in dataset order.
C1_FilterIsConjunction ==
    PassIsCurrent =>
        lastPass.filtered =
            InOrder(Positions(LAMBDA d : /\ PlatformFacet(d) /\ TagFacet(d)
                                         /\ StatusFacet(d) /\ RatingFacet(d)
                                         /\ DateFacet(d)))

\* A pass on two records kept in dataset order, which is not the order of
\* their titles, while some checkbox is unchecked.
C1_Witness ==
    /\ PassIsCurrent
    /\ Len(gameData) = 2
    /\ lastPass.filtered = gameData
    /\ Rank(gameData[1].game) > Rank(gameData[2].game)
    /\ \E i \in DOMAIN ratingBoxes : ~ratingBoxes[i].checked
    /\ \E i \in DOMAIN tagBoxes : ~tagBoxes[i].checked

\* C2: after a pass, an empty platform (tag, rating) selection leaves the
\* filtered subset to the other four facets, and an empty status selection
\* leaves it empty.
C2_EmptySelection ==
    PassIsCurrent =>
        /\ SelectedStatuses = {} => lastPass.filtered = <<>>
        /\ SelectedPlatforms = {} =>
              lastPass.filtered =
                  InOrder(Positions(LAMBDA d : /\ TagFacet(d) /\ StatusFacet(d)
                                               /\ RatingFacet(d) /\ DateFacet(d)))
        /\ SelectedTags = {} =>
              lastPass.filtered =
                  InOrder(Positions(LAMBDA d : /\ PlatformFacet(d) /\ StatusFacet(d)
                                               /\ RatingFacet(d) /\ DateFacet(d)))
        /\ SelectedRatings = {} =>
              lastPass.filtered =
                  InOrder(Positions(LAMBDA d : /\ PlatformFacet(d) /\ TagFacet(d)
                                               /\ StatusFacet(d) /\ DateFacet(d)))

\* Nothing is selected for platform nor for status, in a dataset with a
\* record that passes the tag, rating and date facets: the pass shows nothing.
C2_Witness ==
    /\ PassIsCurrent
    /\ platformBoxes # <<>> /\ SelectedPlatforms = {}
    /\ statusBoxes # <<>> /\ SelectedStatuses = {}
    /\ Positions(LAMBDA d : TagFacet(d) /\ RatingFacet(d) /\ DateFacet(d)) # {}
    /\ lastPass.filtered = <<>>

(***************************************************************************)
(* Properties of the recomputation pass.                                   *)
(***************************************************************************)
AllViews == {"timeline", "table", "aggregation", "playtime", "stats"}

\* The records of the table's data whose title contains the search term;
\* all of them for a blank term.
MatchingSearch ==
    {g \in Range(tableData) :
        \/ searchTerm \in {"", " "}
        \/ searchTerm = "a" /\ g.game = "A"}

C4_ViewsFollowSelection ==
    phase = "ready" =>
        /\ timelineShown = getFilteredData(gameData, Dom)
        /\ tableData = getFilteredData(gameData, Dom)

\* The controls as populateFilters leaves them for the loaded dataset.
InitialDom ==
    [platformBoxes |-> populatePlatformFilters(<<>>, gameData),
     tagBoxes |-> populateTagFilters(<<>>, gameData),
     statusBoxes |-> populateStatusFilters(<<>>, gameData),
     ratingBoxes |-> populateRatingFilters(<<>>, gameData),
     startDate |-> populateDateFilters(gameData)[1],
     endDate |-> populateDateFilters(gameData)[2]]

IsoDated(d) == d.lastPlayedTotal.k = "iso"

\* C6: with two calendar dates in the inputs, a record dated on day d that
\* passes the other four facets is in the subset exactly if
\* startDate <= d <= endDate, the two ends included.
C6_DateInclusive ==
    PassIsCurrent /\ startDate.k = "iso" /\ endDate.k = "iso" =>
        \A i \in DOMAIN gameData :
            LET d == gameData[i]
            IN IsoDated(d) /\ PlatformFacet(d) /\ TagFacet(d) /\ StatusFacet(d)
               /\ RatingFacet(d)
               => (d \in Range(lastPass.filtered)
                   <=> /\ startDate.d <= d.lastPlayedTotal.d
                       /\ d.lastPlayedTotal.d <= endDate.d)

\* West of UTC, one record played on the start date and one played on the end
\* date, a later day, are both in the subset.
C6_Witness ==
    /\ PassIsCurrent
    /\ tz < 0
    /\ startDate.k = "iso" /\ endDate.k = "iso"
    /\ startDate.d < endDate.d
    /\ \E d \in Range(lastPass.filtered) :
          IsoDated(d) /\ d.lastPlayedTotal.d = startDate.d
    /\ \E d \in Range(lastPass.filtered) :
          IsoDated(d) /\ d.lastPlayedTotal.d = endDate.d

\* C7: a record whose lastPlayedTotal is no calendar date (null or malformed)
\* is never in the subset, and the interval populateFilters installs is the
\* extent of the records that have a calendar date.
C7_InvalidDateExcluded ==
    /\ PassIsCurrent =>
          \A d \in Range(lastPass.filtered) : IsoDated(d)
    /\ phase = "ready" /\ ops = 0 =>
          <<startDate, endDate>> =
              populateDateFilters(SelectSeq(gameData, IsoDated))

\* C8: a record without a status that passes the other four facets is in the
\* subset exactly if "Unknown" is among the selected statuses.
C8_AbsentStatusIsUnknown ==
    PassIsCurrent =>
        \A i \in DOMAIN gameData :
            LET d == gameData[i]
            IN d.status = NoStatus /\ PlatformFacet(d) /\ TagFacet(d)
               /\ RatingFacet(d) /\ DateFacet(d)
               => (d \in Range(lastPass.filtered) <=> "Unknown" \in SelectedStatuses)

\* The bucket of a rating of v tenths: lower bound inclusive, upper bound
\* exclusive, 10.0 in the top bucket.
BucketOf(v) ==
    IF v < 50 THEN "<5"
    ELSE IF v < 60 THEN "5-6"
    ELSE IF v < 70 THEN "6-7"
    ELSE IF v < 80 THEN "7-8"
    ELSE IF v < 90 THEN "8-9"
    ELSE "9-10"

\* C9: for every rating from 0.0 to 10.0 the filter, the table and the
\* aggregation chart all return the bucket whose interval holds the rating.
C9_RatingBuckets ==
    ratingOut # <<>> /\ ratingIn.v <= 100 =>
        /\ ratingOut[1] = BucketOf(ratingIn.v)
        /\ ratingOut[2] = BucketOf(ratingIn.v)
        /\ ratingOut[3] = BucketOf(ratingIn.v)

\* The three functions were applied to 9.0, the lower bound of the top bucket.
C9_Witness == ratingOut = <<"9-10", "9-10", "9-10">> /\ ratingIn = Num(90)

\* C10: while at least one rating bucket is selected, no record whose rating
\* is null or not a number is in the subset.
C10_UnratedFailsRatingFacet ==
    PassIsCurrent /\ SelectedRatings # {} =>
        \A d \in Range(lastPass.filtered) : d.rating.k = "number"

(***************************************************************************)
(* Summary statistics.                                                     *)
(***************************************************************************)
\* C11: every pass that reaches updateStats completes it, for the empty
\* subset and for a subset without any rating too: the statistics are
\* computed, and the mean is taken over the ratings that are present (none
\* of them when no record has a rating).
C11_StatsAreTotal ==
    PassIsCurrent /\ "stats" \in lastPass.handed =>
        /\ lastPass.stats # <<>>
        /\ lastPass.stats[1].gamesCount = Len(lastPass.filtered)
        /\ lastPass.stats[1].ratingCount =
               Cardinality({i \in DOMAIN lastPass.filtered :
                               lastPass.filtered[i].rating.k = "number"})

\* The records of a list that have a numeric rating, by position.
RatedPositions(data) == {i \in DOMAIN data : data[i].rating.k = "number"}

\* C12: for records whose rating is a number or absent, topRated is absent
\* for the empty list; when a record has a rating, topRated is a rated record
\* of maximum rating and, among those that share the maximum, the first in
\* input order.
C12_TopRatedFirstMax ==
    /\ derivedIn.fn = "calculateDetailedStats"
    /\ \A i \in DOMAIN derivedIn.data : derivedIn.data[i].rating.k # "text"
    =>  LET data == derivedIn.data
            rated == RatedPositions(data)
            best == {i \in rated : \A j \in rated : data[j].rating.v <= data[i].rating.v}
            first == CHOOSE i \in best : \A j \in best : i <= j
        IN /\ data = <<>> => derivedOut.topRated = <<>>
           /\ rated # {} => derivedOut.topRated = <<data[first]>>

(***************************************************************************)
(* Hours aggregation.                                                      *)
(***************************************************************************)
\* aggregatePlaytimeData was applied to a list of records for this dimension.
Aggregated(type) == derivedIn.fn = "aggregatePlaytimeData" /\ derivedIn.arg = type

\* The buckets of the result for a category.
BucketsFor(c) == {b \in derivedOut : b.category = c}

\* The hours a game has on platform p: its per-platform entries at the
\* positions of p, a missing entry counting as 0.
PlatformHours(game, p) ==
    Sum([i \in DOMAIN game.platforms |->
            IF game.platforms[i] = p /\ i \in DOMAIN game.hoursPlayedSingle
            THEN game.hoursPlayedSingle[i] ELSE 0])

\* The number of times p occurs among the platforms of a game.
PlatformOccurrences(game, p) ==
    Cardinality({i \in DOMAIN game.platforms : game.platforms[i] = p})

AllPlatforms == {"PC", "Switch"}

\* C13: aggregated by platform, the bucket of platform p holds the sum of the
\* per-platform hours at the positions of p (never the total hours of a
\* game) and counts those positions; a platform whose hours add up to zero
\* has no bucket, and there is no other bucket.
C13_PlatformHours ==
    Aggregated("platform") =>
        LET data == derivedIn.data
            hours(p) == Sum([r \in DOMAIN data |-> PlatformHours(data[r], p)])
            count(p) == Sum([r \in DOMAIN data |-> PlatformOccurrences(data[r], p)])
        IN /\ \A b \in derivedOut : b.category \in AllPlatforms
           /\ \A p \in AllPlatforms :
                BucketsFor(p) =
                    IF hours(p) > 0
                    THEN {[category |-> p, totalHours |-> hours(p), gameCount |-> count(p)]}
                    ELSE {}

\* A game on two platforms with 10 and 5 hours: 10 to the first bucket, 5 to
\* the second.
C13_Witness ==
    /\ Aggregated("platform")
    /\ derivedIn.data = <<GameB>>
    /\ derivedOut = {[category |-> "PC", totalHours |-> 10, gameCount |-> 1],
                     [category |-> "Switch", totalHours |-> 5, gameCount |-> 1]}

\* The positions of the records of a list that carry tag t.
Tagged(data, t) == {r \in DOMAIN data : t \in Range(data[r].tags)}

\* C14: aggregated by tag, the bucket of tag t holds the sum of the total
\* hours of the records tagged t and counts them, so that a record adds its
\* full hours to every tag it carries and a record without a tag adds to no
\* bucket; a tag whose hours add up to zero has no bucket.
C14_TagHours ==
    Aggregated("tag") =>
        LET data == derivedIn.data
            hours(t) == Sum([r \in DOMAIN data |->
                               IF r \in Tagged(data, t)
                               THEN data[r].hoursPlayedTotal ELSE 0])
        IN /\ \A b \in derivedOut : b.category \in AllTags
           /\ \A t \in AllTags :
                BucketsFor(t) =
                    IF hours(t) > 0
                    THEN {[category |-> t, totalHours |-> hours(t),
                           gameCount |-> Cardinality(Tagged(data, t))]}
                    ELSE {}

\* A game with two tags beside a game with none: its 15 hours are in both
\* buckets, the other game's hours in neither.
C14_Witness ==
    /\ Aggregated("tag")
    /\ derivedIn.data = <<GameB, GameD>>
    /\ derivedOut = {[category |-> "RPG", totalHours |-> 15, gameCount |-> 1],
                     [category |-> "Indie", totalHours |-> 15, gameCount |-> 1]}

AllStatuses == {"Completed", "Playing", "Unknown"}

\* The status a record is counted under: "Unknown" when it has none.
StatusOrUnknown(game) == IF game.status = NoStatus THEN "Unknown" ELSE game.status

\* The rating category of a record whose rating is a number or absent.
RatingCategory(game) ==
    IF game.rating.k = "null" THEN "No Rating" ELSE BucketOf(game.rating.v)

\* The total hours of the records at the given positions.
HoursAt(data, positions) ==
    Sum([r \in DOMAIN data |-> IF r \in positions THEN data[r].hoursPlayedTotal ELSE 0])

\* The bucket a single-valued dimension has for a category, given the
\* positions of the records that fall into it: none when their hours add up
\* to zero.
ExpectedBuckets(c, data, positions) ==
    IF HoursAt(data, positions) > 0
    THEN {[category |-> c, totalHours |-> HoursAt(data, positions),
           gameCount |-> Cardinality(positions)]}
    ELSE {}

\* Aggregated by status, every record adds its total hours to the bucket of
\* its status, "Unknown" when it has none.
StatusBucketsExact ==
    Aggregated("status") =>
        LET data == derivedIn.data
        IN /\ \A b \in derivedOut : b.category \in AllStatuses
           /\ \A c \in AllStatuses :
                BucketsFor(c) =
                    ExpectedBuckets(c, data,
                        {r \in DOMAIN data : StatusOrUnknown(data[r]) = c})

WellTypedRatings(data) == \A r \in DOMAIN data : data[r].rating.k # "text"

C16_SwitchIsPure ==
    [][currentAggregationType' # currentAggregationType =>
          /\ UNCHANGED <<gameData, DomVars, TableVars>>
          /\ UNCHANGED <<timelineShown, tableData, tableRows, aggData, playtimeShown,
                         statsPanel, pendingStats>>
          /\ lastPass'.passes = 0
          /\ lastPass'.filtered = lastPass.filtered]_vars

\* The dimension was switched away from the initial one while the chart holds
\* records, and the bars are those of the new dimension.
C16_Witness ==
    /\ phase = "ready"
    /\ currentAggregationType = "tag"
    /\ lastPass.passes = 0
    /\ aggData = <<GameA, GameB>>
    /\ Bars = {[category |-> "RPG", totalHours |-> 65, gameCount |-> 2],
               [category |-> "Indie", totalHours |-> 15, gameCount |-> 1]}

(***************************************************************************)
(* Start-up and scheduling.                                                *)
(***************************************************************************)
\* C17: once loading the dataset has failed no pass has run and none ever
\* runs: the views and the controls are as they were before start-up, and no
\* event handler takes a step from there.
C17_NoPassAfterFailedLoad ==
    /\ [](phase = "failed" =>
             /\ lastPass = NoPass
             /\ gameData = <<>>
             /\ pendingStats = {} /\ statsPanel = <<>>
             /\ timelineShown = <<>> /\ tableRows = <<>> /\ aggData = <<>>
             /\ platformBoxes = <<>> /\ ratingBoxes = <<>>)
    /\ [][phase # "failed"]_vars

\* The load has failed.
C17_Witness == phase = "failed" /\ lastPass.passes = 0 /\ gameData = <<>>

\* C18: a pass never suspends: no handler ends while a call of updateStats
\* is still waiting to write the statistics panel, so that no other handler
\* can run between the evaluation of the filter and the update of the last
\* view.
C18_PassNeverSuspends == pendingStats = {}

\* The table shows the records that match the content of the search box.
SearchBoxApplied ==
    /\ searchTerm = searchInput
    /\ Range(tableRows) = {d \in Range(tableData) :
                              TitleIncludes(d.game, TrimLower(searchInput))}

\* C19: the input events of a burst arm one timer between them: while the
\* burst is neither applied nor followed by Enter the timer is armed and
\* nothing of it has reached the table's search term; the timer then fires,
\* once, and applies the content of the search box (the last typed value);
\* Enter applies it at once and leaves no timer armed that would apply it a
\* second time.
C19_SearchDebounced ==
    /\ [](searchTimeout <=> searchBurst = "typing")
    /\ [][searchBurst' = "applied" /\ (searchBurst = "typing" \/ ops' # ops)
             => ~searchTimeout' /\ SearchBoxApplied']_vars
    /\ [][searchBurst = "typing" /\ searchBurst' = "typing"
             => searchTerm' = searchTerm \/ searchTerm' = ""]_vars
    /\ (searchBurst = "typing" ~> searchBurst = "applied")

\* A burst of two input events has been applied by the timer: the table is
\* narrowed by the last typed value.
C19_Witness ==
    /\ searchBurst = "applied"
    /\ ops = MaxOps
    /\ ~searchTimeout
    /\ searchInput = "a"
    /\ searchTerm = "a"
    /\ tableData = <<GameA, GameB>>
    /\ tableRows = <<GameA>>

(***************************************************************************)
(* Boxplot statistics.                                                     *)
(***************************************************************************)
\* The positions of the records of a list that carry tag t and have a rating.
RatedTagged(data, t) == Tagged(data, t) \cap RatedPositions(data)

\* C20: for records whose rating is a number or absent, the boxplot has an
\* entry for a tag exactly if the tag is selected and a record carrying it has
\* a rating; the entry counts the rated records carrying the tag, and every
\* value its statistics are taken from is a rating.
C20_BoxplotRatedOnly ==
    derivedIn.fn = "renderBoxplot" /\ WellTypedRatings(derivedIn.data) =>
        LET data == derivedIn.data
        IN /\ \A t \in AllTags :
                (\E e \in derivedOut : e.tag = t)
                    <=> (t \in derivedIn.arg /\ RatedTagged(data, t) # {})
           /\ \A e \in derivedOut :
                /\ e.stats.count = Cardinality(RatedTagged(data, e.tag))
                /\ \A i \in DOMAIN e.stats.values : e.stats.values[i].k = "number"

\* calculateBoxplotStats was applied to a list of ratings.
BoxplotApplied == derivedIn.fn = "calculateBoxplotStats"

\* The ratings of that list, in tenths, in input order.
GivenRatings == [i \in DOMAIN derivedIn.data |-> derivedIn.data[i].v]

\* The k-th smallest number of a list (k from 1), found by counting.
OrderStatistic(x, k) ==
    CHOOSE v \in Range(x) :
        /\ Cardinality({i \in DOMAIN x : x[i] < v}) < k
        /\ k <= Cardinality({i \in DOMAIN x : x[i] <= v})

\* The R-7 quantile at p = quarters / 4, in eighths of a tenth: with rank
\* h = (n - 1) * p, the order statistic floor(h) + 1 plus the fraction of h
\* times the step to the next one.
R7(x, quarters) ==
    LET h4 == (Len(x) - 1) * quarters
        lo == h4 \div 4 + 1
        r == h4 % 4
    IN 8 * OrderStatistic(x, lo)
       + (IF r = 0 THEN 0
          ELSE 2 * r * (OrderStatistic(x, lo + 1) - OrderStatistic(x, lo)))

\* C21: for every non-empty list of ratings, q1, median and q3 are the R-7
\* quantiles at 0.25, 0.5 and 0.75 of the list, whatever the order in which
\* the ratings are given.
C21_QuantilesAreR7 ==
    BoxplotApplied =>
        /\ derivedOut.q1 = R7(GivenRatings, 1)
        /\ derivedOut.median = R7(GivenRatings, 2)
        /\ derivedOut.q3 = R7(GivenRatings, 3)

\* The ratings 6.0, 7.0, 7.0, 8.0, 9.0 given out of order: q1 = 7.0,
\* median = 7.0, q3 = 8.0.
C21_Witness ==
    /\ BoxplotApplied
    /\ GivenRatings = <<90, 70, 60, 80, 70>>
    /\ derivedOut.q1 = 8 * 70
    /\ derivedOut.median = 8 * 70
    /\ derivedOut.q3 = 8 * 80

\* How often v occurs in a list of numbers.
Occurrences(x, v) == Cardinality({i \in DOMAIN x : x[i] = v})

\* The smallest and the largest number of a list.
Least(x) == CHOOSE v \in Range(x) : \A w \in Range(x) : v <= w
Greatest(x) == CHOOSE v \in Range(x) : \A w \in Range(x) : w <= v

\* The ratings listed as outliers, in tenths.
OutlierRatings == [i \in DOMAIN derivedOut.outliers |-> derivedOut.outliers[i].v]

\* C22: the low whisker is the larger of the smallest rating and
\* q1 - 1.5 * iqr, the high whisker the smaller of the largest rating and
\* q3 + 1.5 * iqr, with iqr = q3 - q1; the outliers are the ratings strictly
\* below the low or strictly above the high whisker, each as often as it was
\* given, and no rating between the whiskers is among them.
C22_WhiskersAndOutliers ==
    BoxplotApplied =>
        LET x == GivenRatings
            iqr == derivedOut.q3 - derivedOut.q1
            low == derivedOut.min
            high == derivedOut.max
        IN /\ 2 * low = Max(2 * 8 * Least(x), 2 * derivedOut.q1 - 3 * iqr)
           /\ 2 * high = Min(2 * 8 * Greatest(x), 2 * derivedOut.q3 + 3 * iqr)
           /\ \A v \in Range(x) \cup Range(OutlierRatings) :
                Occurrences(OutlierRatings, v) =
                    IF 8 * v < low \/ 8 * v > high THEN Occurrences(x, v) ELSE 0

\* The seven ratings 1.0, 8.0, 8.2, 8.3, 8.5, 8.7, 9.9: the whiskers are at
\* 7.35 and 9.35, the outliers are 1.0 and 9.9.
C22_Witness ==
    /\ BoxplotApplied
    /\ derivedIn.data = SevenRatings
    /\ derivedOut.min = 8 * 73 + 4
    /\ derivedOut.max = 8 * 93 + 4
    /\ derivedOut.outliers = <<Num(10), Num(99)>>

\* C30: for every non-empty list of numeric ratings the statistics are
\* ordered low whisker <= q1 <= median <= q3 <= high whisker, both whiskers
\* lie between the smallest and the largest rating, and count is the number
\* of outliers plus the number of ratings between the whiskers; for a single
\* rating the five values equal it and there is no outlier.
C30_BoxplotOrdered ==
    BoxplotApplied =>
        LET x == GivenRatings
            low == derivedOut.min
            high == derivedOut.max
        IN /\ low <= derivedOut.q1
           /\ derivedOut.q1 <= derivedOut.median
           /\ derivedOut.median <= derivedOut.q3
           /\ derivedOut.q3 <= high
           /\ 8 * Least(x) <= low /\ low <= 8 * Greatest(x)
           /\ 8 * Least(x) <= high /\ high <= 8 * Greatest(x)
           /\ derivedOut.count =
                 Len(derivedOut.outliers)
                 + Cardinality({i \in DOMAIN x : low <= 8 * x[i] /\ 8 * x[i] <= high})
           /\ Len(x) = 1 =>
                 /\ {low, derivedOut.q1, derivedOut.median, derivedOut.q3, high} = {8 * x[1]}
                 /\ derivedOut.outliers = <<>>

\* A single rating of 7.0.
C30_WitnessSingle ==
    /\ BoxplotApplied
    /\ GivenRatings = <<70>>
    /\ derivedOut.count = 1
    /\ derivedOut.median = 8 * 70
    /\ derivedOut.outliers = <<>>


\* The ordered bars of a dimension are in the probe.
Rendered(type) == derivedIn.fn = "renderPlaytimeAggregation" /\ derivedIn.arg = type

\* The position of a category in a list of categories, 0 when it is not there.
PlaceIn(order, category) ==
    IF \E i \in DOMAIN order : order[i] = category
    THEN CHOOSE i \in DOMAIN order : order[i] = category
    ELSE 0

\* The bars follow the given category order, and every bar is in it.
FollowsOrder(order) ==
    /\ \A i \in DOMAIN derivedOut : PlaceIn(order, derivedOut[i].category) > 0
    /\ \A i, j \in DOMAIN derivedOut :
         i < j => PlaceIn(order, derivedOut[i].category)
                      < PlaceIn(order, derivedOut[j].category)

\* The bars are in non-increasing order of totalHours.
HoursDescending ==
    \A i, j \in DOMAIN derivedOut :
        i < j => derivedOut[i].totalHours >= derivedOut[j].totalHours

\* The bars are the buckets of the aggregation, each once, none with 0 hours.
BarsAreTheBuckets ==
    /\ Range(derivedOut) = aggregatePlaytimeData(derivedIn.data, derivedIn.arg)
    /\ \A i, j \in DOMAIN derivedOut : derivedOut[i] = derivedOut[j] => i = j
    /\ \A i \in DOMAIN derivedOut : derivedOut[i].totalHours > 0

\* The category order of the rating dimension as the specification lists it.
StatedRatingOrder == <<"9-10", "8-9", "7-8", "6-7", "5-6", "<5">>

Offered(boxes) == [i \in DOMAIN boxes |-> boxes[i].value]

\* The sorted distinct values of a list.
Catalog(values) == SortStrings(Distinct(values))

\* C24: the platform, tag and status checkboxes populateFilters builds offer
\* the sorted distinct values of the dataset, each once (platforms and tags
\* flattened over the records, an absent status counted as "Unknown"), and the
\* rating checkboxes offer the six fixed buckets whatever the data.
C24_FacetCatalog ==
    phase = "ready" =>
        /\ Offered(platformBoxes) = Catalog(FlatMap(gameData, "platforms"))
        /\ Offered(tagBoxes) = Catalog(FlatMap(gameData, "tags"))
        /\ Offered(statusBoxes)
               = Catalog([i \in DOMAIN gameData |-> StatusOrUnknown(gameData[i])])
        /\ Range(Offered(ratingBoxes)) = Range(StatedRatingOrder)
        /\ Len(ratingBoxes) = Len(StatedRatingOrder)


\* C25: once the controls have been built, whether at start-up or again for a
\* replacing dataset, the platform, tag, status and rating checkboxes offer
\* exactly the values populateFilters builds for the current dataset on an
\* empty page, each once, and each date input has one change listener.
C25_NoLeakedState ==
    phase = "ready" =>
        /\ Offered(platformBoxes) = Offered(InitialDom.platformBoxes)
        /\ Offered(tagBoxes) = Offered(InitialDom.tagBoxes)
        /\ Offered(statusBoxes) = Offered(InitialDom.statusBoxes)
        /\ Offered(ratingBoxes) = Offered(InitialDom.ratingBoxes)
        /\ dateListeners = 1


\* C26: once every updateStats call that was started has finished, the panel
\* shows the count, mean and total the most recently started pass computed
\* from its filtered subset, the subset the table shows.
C26_StatsNeverStale ==
    (phase = "ready" /\ pendingStats = {} /\ lastPass.stats # <<>>)
        => /\ statsPanel = lastPass.stats
           /\ statsPanel = <<StatsOf(tableData)>>


\* Every checkbox of the four facets is checked.
AllChecked(dom) ==
    \A facet \in Facets : \A i \in DOMAIN dom[facet] : dom[facet][i].checked

\* Every record has a calendar date, and there is a record.
AllDated(data) ==
    /\ data # <<>>
    /\ \A i \in DOMAIN data : data[i].lastPlayedTotal.k = "iso"

\* The earliest and the latest calendar date of the records.
EarliestDate(data) ==
    Iso(CHOOSE d \in {data[i].lastPlayedTotal.d : i \in DOMAIN data} :
            \A i \in DOMAIN data : d <= data[i].lastPlayedTotal.d)
LatestDate(data) ==
    Iso(CHOOSE d \in {data[i].lastPlayedTotal.d : i \in DOMAIN data} :
            \A i \in DOMAIN data : d >= data[i].lastPlayedTotal.d)

\* The five passes of resetAllFilters have just run.
ResetDone == phase = "ready" /\ lastPass.passes = 5

\* After resetAllFilters the controls are as populateFilters left them at
\* start-up, every checkbox checked, and its last pass was evaluated on them
\* and handed its subset to the views.
ResetRestoresStartUp ==
    ResetDone =>
        /\ AllChecked(Dom)
        /\ Dom = InitialDom
        /\ lastPass.filtered = getFilteredData(gameData, InitialDom)
        /\ timelineShown = lastPass.filtered
        /\ tableData = lastPass.filtered
        /\ aggData = lastPass.filtered
        /\ playtimeShown = lastPass.filtered

\* C27: after resetAllFilters every platform, tag, status and rating checkbox
\* is checked and the date interval is the full date extent of the dataset,
\* from the earliest to the latest date of the records: the selection
\* populateFilters established at start-up; the last pass it triggers is
\* evaluated on that selection and hands its subset to the views.
C27_ResetRestores ==
    /\ ResetRestoresStartUp
    /\ (ResetDone /\ AllDated(gameData)) =>
           /\ startDate = EarliestDate(gameData)
           /\ endDate = LatestDate(gameData)


\* A select-only operation on a facet, for a value, is the step being taken.
SelectOnlyStep(facet, value) ==
    /\ Ready
    /\ IF facet = "ratingBoxes" THEN selectOnlyRating(value)
       ELSE selectOnlyByValue(facet, value)

\* The controls after the step.
DomAfter == [platformBoxes |-> platformBoxes', tagBoxes |-> tagBoxes',
             statusBoxes |-> statusBoxes', ratingBoxes |-> ratingBoxes',
             startDate |-> startDate', endDate |-> endDate']

\* C28: a select-only operation for a value the facet's checkboxes offer
\* leaves exactly that value selected in the facet, leaves the three other
\* facets and the two dates as they were, and triggers exactly one pass.
C28_SelectOnlyOneFacet ==
    [][\A facet \in Facets : \A value \in Range(Offered(Dom[facet])) :
          SelectOnlyStep(facet, value) =>
              /\ Selected(DomAfter[facet]) = <<value>>
              /\ \A other \in Facets \ {facet} : DomAfter[other] = Dom[other]
              /\ startDate' = startDate /\ endDate' = endDate
              /\ lastPass'.passes = 1]_vars


\* The sort state changes in the step.
SortStateChanges == sortColumn' # sortColumn \/ sortDirection' # sortDirection

\* The step obeys the rule of the header click: same column and the direction
\* flipped, or another column with the direction asc.
HeaderClickRule ==
    \/ /\ sortColumn' = sortColumn
       /\ sortDirection' = (IF sortDirection = "asc" THEN "desc" ELSE "asc")
    \/ /\ sortColumn' # sortColumn
       /\ sortDirection' = "asc"

\* C29: the sort state starts at (rating, desc); a header click flips the
\* direction when the column is the current one and otherwise sets the column
\* with direction asc; no other step (a filter pass, a change of the search
\* term, a CSV download) changes the column or the direction; and the CSV file
\* a download writes lists the records the table shows, in the same order.
C29_SortStateMachine ==
    /\ [](phase = "start" => sortColumn = "rating" /\ sortDirection = "desc")
    /\ [][sortHeaderClick => HeaderClickRule]_vars
    /\ [][SortStateChanges => sortHeaderClick]_vars
    /\ [][(downloadTableAsCSV /\ tableRows # <<>>) => csvRows' = <<tableRows>>]_vars
    /\ [][csvRows' # csvRows => downloadTableAsCSV]_vars

\* A file has been downloaded from a table of two records, after a click on
\* the header of a column other than the initial one has sorted them in an
\* order that is not the dataset's.
C29_Witness ==
    /\ csvRows = <<tableRows>>
    /\ Len(tableRows) = 2
    /\ tableRows # tableData
    /\ sortColumn = "hoursPlayedTotal"
    /\ sortDirection = "asc"

====
